---- MODULE Spec2Model ----
(***************************************************************************)
(* Order / Warehouse / Warranty micro-services: the purchase and return    *)
(* sagas of the Order service, its service-health gate, and the deferred   *)
(* warranty-enrolment worker, together with the Warehouse and Warranty     *)
(* handlers the sagas call.                                                *)
(*                                                                         *)
(* One Order process is modelled.  Its request handlers run concurrently;  *)
(* every outbound call takes the SERVICES_STATUS mutex for its whole       *)
(* duration (gateway.rs), so one call is one step.  Time is kept as the    *)
(* number of seconds since each registry entry was written, capped at the  *)
(* cooldown: the code only ever reads now - updated >= cooldown.           *)
(***************************************************************************)
EXTENDS Integers, Sequences, FiniteSets, Bags, TLC

\* ------------------------------------------------------------- bounds
\* order_uids the Order service may mint (one per purchase attempt)
MaxOrders == 2
\* stock of the seeded item at start
InitStock == 1
\* returns are not started once the item's count has reached this cap
MaxCount == 2
\* requests sent straight to the Warehouse service
MaxRequests == 5
\* orders in the list Order answers Store with
MaxList == 2

\* the deployment's settings, read from the environment at start-up (main.rs
\* lazy_static); small values, so that exhausting the retries and waiting out the
\* cooldown take few steps
\* retry attempts per call (env SERVICES_CALLOUT_NUMBER, default 4)
SERVICES_CALLOUT_NUMBER == 2
\* cooldown seconds (env SERVICES_UPDATE_DURATION, default 60)
SERVICES_UPDATE_DURATION == 2

Handlers == {1, 2}
Peers == {"warehouse", "warranty"}
\* "m" is stocked (items row 1); "x" is not in the items table
Models == {"m", "x"}
ItemIds == {1}
ItemModel(i) == "m"

OrderUids == 1..MaxOrders
NoUid == 0
\* the Warehouse service's request threads (Rocket workers)
WhThreads == {1, 2}

\* what the network and the peer do to one attempt of a call
AttemptOutcomes == {"transport", "unavailable", "served"}

VARIABLES
    items,                    \* Warehouse: item id -> available_count
    order_items,              \* Warehouse: set of order_items rows
    warranty,                 \* Warranty: set of warranty rows
    orders,                   \* Order: set of orders rows
    next_order_uid,           \* uuids minted so far by Order (new_v4)
    services_status,          \* health registry: peer -> [up, age]
    stable,                \* environment: the peer is healthy and the network to it reliable
    queue_conn,               \* Some/None: the AMQP connection at start-up
    warranty_polling_thread,  \* worker handle: "none" | "running"
    wpc,                      \* worker position: "top" | "recv" | "sleep"
    wsleep,                   \* seconds the worker still sleeps
    ready,                    \* broker: messages ready in the queue (FIFO)
    unacked,                  \* broker: delivered on the worker's channel, not acked (in delivery order)
    inbox,                    \* worker: deliveries received by the consumer (FIFO)
    published,                \* history: item_uid -> times it was published
    sagas,                    \* the sagas in flight, one per busy request handler
    last,                     \* what the saga that returned in the last step returned
    before,                   \* history: the items and orders tables as a request came in
    call,                     \* what the gateway call of the last step did
    wh_reqs,                  \* Warehouse: request thread -> its position and locals
    wh_hist,                  \* history of the requests sent straight to Warehouse
    store,                    \* Store: its registry, the request in hand, its last response
    verdict,                  \* what the last warranty-verdict request was answered
    gw,                       \* Order: the registry mutex and the gateway calls under way
    wk                        \* Order: the worker-handle mutex and the purchases enqueueing

vars == <<items, order_items, warranty, orders, next_order_uid, services_status,
          stable, queue_conn, warranty_polling_thread, wpc, wsleep,
          ready, unacked, inbox, published, sagas, last, before, call,
          wh_reqs, wh_hist, store, verdict, gw, wk>>

\* everything but the Store service
corevars == <<items, order_items, warranty, orders, next_order_uid, services_status,
              stable, queue_conn, warranty_polling_thread, wpc, wsleep,
              ready, unacked, inbox, published, sagas, last, before, call,
              wh_reqs, wh_hist, verdict, gw, wk>>

dbvars == <<items, order_items, warranty, orders>>
workervars == <<warranty_polling_thread, wpc, wsleep, ready, unacked, inbox, published>>
whvars == <<wh_reqs, wh_hist>>
\* what the Order service's own steps leave alone
envvars == <<stable, queue_conn, whvars, store, verdict, gw, wk>>

NoCall == [peer |-> "none", req |-> "none", outs |-> <<>>, probe |-> "none",
           attempts |-> 0, status |-> 0, result |-> "none"]

\* a handler's saga state: its position, the saga's locals (order_uid, item_uid, model,
\* err), what it returns (result, http), and path, the branch the saga took
Idle == [pc |-> "idle", kind |-> "none", order_uid |-> NoUid, item_uid |-> NoUid,
         model |-> "none", err |-> "none", result |-> "none", http |-> 0,
         path |-> "none"]

NoResponse == [kind |-> "none", order_uid |-> NoUid, item_uid |-> NoUid,
               result |-> "none", http |-> 0, path |-> "none"]

\* ---------------------------------------------------------- helpers
Min2(a, b) == IF a <= b THEN a ELSE b

\* ================================================ Warehouse service
\* db.rs load_order_uid / load_order_item_uid
load_order_uid(rows, order_uid) == {r \in rows : r.order_uid = order_uid}
load_order_item_uid(rows, item_uid) == {r \in rows : r.order_item_uid = item_uid}
\* db.rs load_item: the items row for (model, size)
load_item(model) == {i \in ItemIds : ItemModel(i) = model}
\* Vec::pop on a query result: the last row
pop(rows) == CHOOSE r \in rows : \A q \in rows : q.id <= r.id

\* fault injection: the UPDATE can only cancel, a row is never set live again
wh_update_order_status_cancel_only(rows, order_uid, canceled) ==
    {IF r.order_uid = order_uid THEN [r EXCEPT !.canceled = TRUE] ELSE r : r \in rows}

\* db.rs update_order_status: every row of the order_uid
wh_update_order_status(rows, order_uid, canceled) ==
    {IF r.order_uid = order_uid THEN [r EXCEPT !.canceled = canceled] ELSE r : r \in rows}

\* fault injection: the count is decremented without the check for <= 0
decrement_count_unchecked(count) == [ok |-> TRUE, count |-> count - 1]

\* fault injection: the last unit is never handed out
decrement_count_keeps_last(count) ==
    IF count <= 1 THEN [ok |-> FALSE, count |-> count]
    ELSE [ok |-> TRUE, count |-> count - 1]

\* model.rs Item::decrement_count
decrement_count(count) ==
    IF count <= 0 THEN [ok |-> FALSE, count |-> count]
    ELSE [ok |-> TRUE, count |-> count - 1]

\* model.rs Item::increment_count
increment_count(count) == count + 1

\* uuid::Uuid::new_v4 in Warehouse: an order_item_uid no row carries
new_item_uid(rows) == Cardinality(rows) + 1

\* model.rs create_order + routes.rs add_order_item: the reserve
wh_create_order(its, rows, order_uid, model) ==
    IF load_item(model) = {} THEN
        [status |-> 404, items |-> its, order_items |-> rows, item_uid |-> NoUid]
    ELSE LET i == CHOOSE j \in load_item(model) : TRUE
             d == decrement_count(its[i])
             found == load_order_uid(rows, order_uid)
         IN  IF ~d.ok THEN
                 [status |-> 409, items |-> its, order_items |-> rows, item_uid |-> NoUid]
             ELSE IF found # {} THEN
                 [status |-> 200,
                  items |-> [its EXCEPT ![i] = d.count],
                  order_items |-> wh_update_order_status(rows, order_uid, FALSE),
                  item_uid |-> pop(found).order_item_uid]
             ELSE
                 [status |-> 200,
                  items |-> [its EXCEPT ![i] = d.count],
                  order_items |-> rows \cup
                      {[id |-> Cardinality(rows) + 1, canceled |-> FALSE,
                        order_item_uid |-> new_item_uid(rows),
                        order_uid |-> order_uid, item_id |-> i]},
                  item_uid |-> new_item_uid(rows)]

\* fault injection: the release marks the row canceled but does not give the unit back
wh_cancel_order_count_kept(its, rows, item_uid) ==
    IF load_order_item_uid(rows, item_uid) = {} THEN
        [status |-> 404, items |-> its, order_items |-> rows]
    ELSE LET order == pop(load_order_item_uid(rows, item_uid))
         IN  [status |-> 204, items |-> its,
              order_items |-> wh_update_order_status(rows, order.order_uid, TRUE)]

\* model.rs cancel_order + routes.rs delete_order_item: the release
wh_cancel_order(its, rows, item_uid) ==
    IF load_order_item_uid(rows, item_uid) = {} THEN
        [status |-> 404, items |-> its, order_items |-> rows]
    ELSE LET order == pop(load_order_item_uid(rows, item_uid))
         IN  [status |-> 204,
              items |-> [its EXCEPT ![order.item_id] = increment_count(its[order.item_id])],
              order_items |-> wh_update_order_status(rows, order.order_uid, TRUE)]

\* model.rs get_item + routes.rs get_item_info
wh_get_item(rows, item_uid) ==
    IF load_order_item_uid(rows, item_uid) = {} THEN [status |-> 404, model |-> "none"]
    ELSE [status |-> 200,
          model |-> ItemModel(pop(load_order_item_uid(rows, item_uid)).item_id)]

\* ================================================= Warranty service
\* db.rs load_id
load_id(rows, uid) == {w \in rows : w.item_uid = uid}

\* model.rs add_warranty + routes.rs request_warranty: inserts unconditionally
add_warranty(rows, uid) ==
    [status |-> 204,
     warranty |-> rows \cup {[id |-> Cardinality(rows) + 1, item_uid |-> uid,
                              status |-> "ON_WARRANTY"]}]

\* model.rs close_warranty + routes.rs delete_warranty: UPDATE .. get_result fails
\* with NotFound when no row matches, which the route answers 400
close_warranty(rows, uid) ==
    IF load_id(rows, uid) = {} THEN [status |-> 400, warranty |-> rows]
    ELSE [status |-> 204,
          warranty |-> {IF w.item_uid = uid
                        THEN [w EXCEPT !.status = "REMOVED_FROM_WARRANTY"] ELSE w
                        : w \in rows}]

\* ================================== Order service: the health gate
\* gateway.rs update_service_status: the probe is sent only for a peer that is down
\* and whose entry is at least the cooldown old
probe_due(st) == ~st.up /\ st.age >= SERVICES_UPDATE_DURATION

\* fault injection: a failed probe restarts the cooldown
update_service_status_restart(st, probeOk) ==
    IF probe_due(st) /\ probeOk THEN [up |-> TRUE, age |-> 0]
    ELSE IF probe_due(st) THEN [up |-> FALSE, age |-> 0]
    ELSE st

\* fault injection: the probe's answer is not used
update_service_status_ignored(st, probeOk) == st

\* gateway.rs update_service_status + Service::change_status (up, updated = now)
update_service_status(st, probeOk) ==
    IF probe_due(st) /\ probeOk THEN [up |-> TRUE, age |-> 0] ELSE st

\* fault injection: a 5xx answer is retried like a transport failure
RECURSIVE send_with_retries_until_served(_, _)
send_with_retries_until_served(outs, i) ==
    IF i > SERVICES_CALLOUT_NUMBER THEN
        [attempts |-> SERVICES_CALLOUT_NUMBER, response |-> "none"]
    ELSE IF outs[i] = "served" THEN [attempts |-> i, response |-> outs[i]]
    ELSE send_with_retries_until_served(outs, i + 1)

\* gateway.rs `for _ in 0..*SERVICES_CALLOUT_NUMBER`: attempt i is sent only when the
\* attempts before it failed at transport level; the loop breaks on any response
RECURSIVE send_with_retries(_, _)
send_with_retries(outs, i) ==
    IF i > SERVICES_CALLOUT_NUMBER THEN
        [attempts |-> SERVICES_CALLOUT_NUMBER, response |-> "none"]
    ELSE IF outs[i] # "transport" THEN [attempts |-> i, response |-> outs[i]]
    ELSE send_with_retries(outs, i + 1)

\* fault injection: any call that was not served opens the circuit
mark_after_send_on_error(st, response) ==
    IF response # "served" THEN [up |-> FALSE, age |-> 0] ELSE st

\* gateway.rs `if res.is_none() { up = false; updated = Instant::now() }`
mark_after_send(st, response) ==
    IF response = "none" THEN [up |-> FALSE, age |-> 0] ELSE st

\* gateway.rs request_*: gate check, optional probe, short-circuit, retry loop,
\* registry update.  o = [probeOk, outs] is what the network does to this call.
Gate(st, o) ==
    LET st1 == update_service_status(st, o.probeOk)
    IN  IF ~st1.up THEN
            [st |-> st1, probed |-> probe_due(st), attempts |-> 0, response |-> "none"]
        ELSE LET s == send_with_retries(o.outs, 1)
             IN  [st |-> mark_after_send(st1, s.response), probed |-> probe_due(st),
                  attempts |-> s.attempts, response |-> s.response]

\* what the network may do to one call to peer p: a stable peer answers the probe and
\* serves the first attempt; of an unstable one nothing is known, any attempt may fail
\* at transport level, be answered 503 or be served
NetOutcomes(p) ==
    {o \in [probeOk : BOOLEAN, outs : [1..SERVICES_CALLOUT_NUMBER -> AttemptOutcomes]] :
        stable[p] => (o.probeOk /\ \A i \in 1..SERVICES_CALLOUT_NUMBER : o.outs[i] = "served")}

\* one representative of the outcomes the sagas cannot tell apart: what a probe that
\* is not due would have got, and what the attempts after an answered one would have got
Outcomes(p) ==
    {o \in NetOutcomes(p) :
        /\ ~probe_due(services_status[p]) => o.probeOk
        /\ \A i \in 1..(SERVICES_CALLOUT_NUMBER - 1) :
              o.outs[i] # "transport" => o.outs[i + 1] = "served"}

\* the HTTP status the caller sees: 503 when the peer has no database connection
\* (routes.rs `conn.is_err()`), else the handler's status; 0 when nothing came back
http_status(g, handlerStatus) ==
    IF g.response = "none" THEN 0
    ELSE IF g.response = "unavailable" THEN 503 ELSE handlerStatus

\* fault injection: a 409 is taken for a reservation
request_warehouse_service_item_conflict_ok(status) ==
    IF status = 0 THEN "WarehouseServiceAccessErr"
    ELSE IF status = 404 THEN "ItemNotFound"
    ELSE IF status = 409 THEN "Ok"
    ELSE IF status # 200 THEN "WarehouseServiceAccessErr"
    ELSE "Ok"

\* gateway.rs request_warehouse_service_item: classification of the response
request_warehouse_service_item(status) ==
    IF status = 0 THEN "WarehouseServiceAccessErr"
    ELSE IF status = 404 THEN "ItemNotFound"
    ELSE IF status = 409 THEN "ItemIsNotAvailable"
    ELSE IF status # 200 THEN "WarehouseServiceAccessErr"
    ELSE "Ok"

\* gateway.rs request_warehouse_service_item_info
request_warehouse_service_item_info(status) ==
    IF status = 0 THEN "WarehouseServiceAccessErr"
    ELSE IF status = 404 THEN "ItemNotFound"
    ELSE IF status # 200 THEN "WarehouseServiceAccessErr"
    ELSE "Ok"

\* fault injection: any answer of Warehouse is taken for a release
request_warehouse_service_return_any_answer(status) ==
    IF status = 0 THEN "WarehouseServiceAccessErr"
    ELSE "Ok"

\* gateway.rs request_warehouse_service_return: only 204 is a release
request_warehouse_service_return(status) ==
    IF status = 0 THEN "WarehouseServiceAccessErr"
    ELSE IF status # 204 THEN "WarehouseServiceAccessErr"
    ELSE "Ok"

\* fault injection: the response's status is not compared with NO_CONTENT
request_warranty_service_start_unchecked(status) ==
    IF status = 0 THEN "WarrantyServiceAccessErr" ELSE "Ok"

\* gateway.rs request_warranty_service_start
request_warranty_service_start(status) ==
    IF status = 0 THEN "WarrantyServiceAccessErr"
    ELSE IF status # 204 THEN "WarrantyServiceAccessErr"
    ELSE "Ok"

\* fault injection: a failed close is reported as a Warehouse error
request_warranty_service_stop_warehouse_error(status) ==
    IF status = 0 THEN "WarehouseServiceAccessErr"
    ELSE IF status # 204 THEN "WarehouseServiceAccessErr"
    ELSE "Ok"

\* gateway.rs request_warranty_service_stop: only 204 is a close
request_warranty_service_stop(status) ==
    IF status = 0 THEN "WarrantyServiceAccessErr"
    ELSE IF status # 204 THEN "WarrantyServiceAccessErr"
    ELSE "Ok"

\* gateway.rs get_service_status: any HTTP response counts as healthy
get_service_status(probeOk) == probeOk

\* =================================== Order service: HTTP responders
\* fault injection: Order answers an accepted purchase 201 Created
make_order_handler_created(result) ==
    IF result = "Ok" THEN 201
    ELSE IF result = "ItemIsNotAvailable" THEN 409
    ELSE IF result = "WarehouseServiceAccessErr" THEN 422
    ELSE IF result = "WarrantyServiceAccessErr" THEN 422
    ELSE IF result = "AmpqError" THEN 500
    ELSE 400

\* routes.rs make_order_handler: status of POST /api/v1/orders/{user_uid}
make_order_handler(result) ==
    IF result = "Ok" THEN 200
    ELSE IF result = "ItemIsNotAvailable" THEN 409
    ELSE IF result = "WarehouseServiceAccessErr" THEN 422
    ELSE IF result = "WarrantyServiceAccessErr" THEN 422
    ELSE IF result = "AmpqError" THEN 500
    ELSE 400

\* routes.rs return_order_handler: the responder built in map_err is dropped
\* (`let _ = return_order(..).map_err(..)`) and the handler answers NoContent
return_order_handler(result) == 204

\* ======================================= Store service: the façade
\* store gateway.rs request_order_service_create_order + routes.rs purchase_handler,
\* for a call that reached Order and got `status`
store_purchase_handler(status) ==
    LET r == IF status = 409 THEN "ItemIsNotAvailable"
             ELSE IF status # 200 THEN "OrderServiceAccessErr" ELSE "Ok"
    IN  IF r = "Ok" THEN 201
        ELSE IF r = "ItemIsNotAvailable" THEN 409
        ELSE 422

\* store gateway.rs request_order_service_return_order + routes.rs return_order_handler
store_return_order_handler(status) ==
    LET r == IF status = 404 THEN "OrderNotFoundErr"
             ELSE IF status # 204 THEN "OrderServiceAccessErr" ELSE "Ok"
    IN  IF r = "Ok" THEN 204
        ELSE IF r = "OrderServiceAccessErr" THEN 422
        ELSE 400

\* ============================================ Order service: sagas
\* the saga returns: create_order's Result goes through make_order_handler,
\* return_order's through return_order_handler
Finish(st, result) ==
    [st EXCEPT !.pc = "done", !.result = result,
               !.http = IF st.kind = "purchase" THEN make_order_handler(result)
                        ELSE return_order_handler(result)]

\* the handler's next state: a saga that returned hands its responder to Rocket and
\* the handler is free again; last holds the response for the one state after the return
Respond(st) ==
    /\ last' = IF st.pc = "done"
               THEN [kind |-> st.kind, order_uid |-> st.order_uid,
                     item_uid |-> st.item_uid, result |-> st.result, http |-> st.http,
                     path |-> st.path]
               ELSE NoResponse

\* a request comes in and its saga takes its first step; with record, before
\* remembers the tables as they were when the request came in
Start(st, record) ==
    /\ sagas' = IF st.pc = "done" THEN sagas ELSE sagas (+) SetToBag({st})
    /\ before' = IF record THEN [items |-> items, orders |-> orders] ELSE before
    /\ Respond(st)

\* the saga in state s takes a step to state st
Step(s, st) ==
    /\ sagas' = IF st.pc = "done" THEN sagas (-) SetToBag({s})
                 ELSE (sagas (-) SetToBag({s})) (+) SetToBag({st})
    /\ before' = before
    /\ Respond(st)

\* db.rs load_by_order_id
load_by_order_id(rows, order_uid) == {r \in rows : r.order_uid = order_uid}

\* fault injection: the INSERT is dropped
insert_order_dropped(rows, order) == rows

\* db.rs insert_order
insert_order(rows, order) == rows \cup {order}

\* fault injection: the UPDATE sets an order that is CANCELED back to PAID
update_order_status_reopen(rows, order_uid, status) ==
    {IF r.order_uid = order_uid
     THEN [r EXCEPT !.status = IF r.status = "CANCELED" THEN "PAID" ELSE status]
     ELSE r : r \in rows}

\* db.rs update_order_status (orders table)
update_order_status(rows, order_uid, status) ==
    {IF r.order_uid = order_uid THEN [r EXCEPT !.status = status] ELSE r : r \in rows}

\* model.rs create_order, lines 228-253: mint order_uid, reserve at Warehouse
create_order_reserve(record) ==
    /\ BagCardinality(sagas) < Cardinality(Handlers)
    /\ next_order_uid < MaxOrders
    /\ \E m \in Models, o \in Outcomes("warehouse") :
        LET uid == next_order_uid + 1
            g == Gate(services_status["warehouse"], o)
            served == g.response = "served"
            r == wh_create_order(items, order_items, uid, m)
            status == http_status(g, r.status)
            res == request_warehouse_service_item(status)
            st == [Idle EXCEPT !.kind = "purchase", !.order_uid = uid, !.model = m]
        IN  /\ next_order_uid' = uid
            /\ services_status' = [services_status EXCEPT !["warehouse"] = g.st]
            /\ items' = IF served THEN r.items ELSE items
            /\ order_items' = IF served THEN r.order_items ELSE order_items
            /\ Start(
                        IF res = "Ok"
                        THEN [st EXCEPT !.pc = "enrol", !.item_uid = r.item_uid]
                        ELSE Finish([st EXCEPT !.path = "reserve_failed"], res), record)
    /\ UNCHANGED <<call, warranty, orders, envvars, workervars>>

\* model.rs create_order, lines 255-266: enrol the item at Warranty
create_order_enrol(s) ==
    /\ s.pc = "enrol"
    /\ \E o \in Outcomes("warranty") :
        LET g == Gate(services_status["warranty"], o)
            served == g.response = "served"
            r == add_warranty(warranty, s.item_uid)
            status == http_status(g, r.status)
            res == request_warranty_service_start(status)
        IN  /\ services_status' = [services_status EXCEPT !["warranty"] = g.st]
            /\ warranty' = IF served THEN r.warranty ELSE warranty
            /\ Step(s,
                        IF res = "Ok" THEN [s EXCEPT !.pc = "insert", !.path = "enrolled"]
                        ELSE IF queue_conn = "Some"
                        THEN [s EXCEPT !.pc = "enqueue", !.err = res]
                        ELSE [s EXCEPT !.pc = "compensate", !.err = res])
    /\ UNCHANGED <<call, items, order_items, orders, next_order_uid, envvars, workervars>>

\* model.rs create_order, lines 255-266, when the answers are late: the gate lets the
\* call through, Warranty runs its handler on the first attempt (add_warranty inserts
\* the row) but no attempt is answered within SERVICES_CALLOUT_TIMEOUT, so send()
\* returns Err each time, the retry loop ends with res = None, the entry is marked
\* down and the saga goes on as after any failed enrol
create_order_enrol_unanswered(s) ==
    /\ s.pc = "enrol"
    /\ \E probeOk \in BOOLEAN :
        LET o == [probeOk |-> probeOk,
                  outs |-> [i \in 1..SERVICES_CALLOUT_NUMBER |-> "transport"]]
            g == Gate(services_status["warranty"], o)
            res == request_warranty_service_start(http_status(g, 0))
        IN  /\ ~probe_due(services_status["warranty"]) => probeOk
            /\ g.attempts > 0
            /\ services_status' = [services_status EXCEPT !["warranty"] = g.st]
            /\ warranty' = add_warranty(warranty, s.item_uid).warranty
            /\ Step(s,
                        IF queue_conn = "Some"
                        THEN [s EXCEPT !.pc = "enqueue", !.err = res]
                        ELSE [s EXCEPT !.pc = "compensate", !.err = res])
    /\ UNCHANGED <<call, items, order_items, orders, next_order_uid, envvars, workervars>>

\* model.rs create_order, lines 267-287: start the worker if there is none, publish
\* the item_uid.  b is what the broker does: "fail_consumer" fails open_channel in
\* create_queue_consumer, "fail_publish" fails open_channel, queue_declare or publish
create_order_enqueue(s) ==
    /\ s.pc = "enqueue"
    /\ \E b \in {"ok", "fail_consumer", "fail_publish"} :
        /\ b = "fail_consumer" => warranty_polling_thread = "none"
        /\ IF b = "fail_consumer" THEN
               /\ Step(s, Finish([s EXCEPT !.path = "enqueue_failed"], "AmpqError"))
               /\ UNCHANGED workervars
           ELSE
               /\ warranty_polling_thread' = "running"
               /\ IF b = "fail_publish" THEN
                      /\ Step(s,
                                  Finish([s EXCEPT !.path = "enqueue_failed"], "AmpqError"))
                      /\ UNCHANGED <<ready, published>>
                  ELSE
                      /\ ready' = Append(ready, s.item_uid)
                      /\ published' = [published EXCEPT ![s.item_uid] = @ + 1]
                      /\ Step(s, [s EXCEPT !.pc = "insert", !.path = "deferred"])
               /\ UNCHANGED <<wpc, wsleep, unacked, inbox>>
    /\ UNCHANGED <<call, dbvars, next_order_uid, services_status, envvars>>

\* model.rs create_order, lines 288-300: no queue, release the reservation and
\* return the warranty error; a failed release returns its own error (`?`)
create_order_compensate(s) ==
    /\ s.pc = "compensate"
    /\ \E o \in Outcomes("warehouse") :
        LET g == Gate(services_status["warehouse"], o)
            served == g.response = "served"
            r == wh_cancel_order(items, order_items, s.item_uid)
            status == http_status(g, r.status)
            res == request_warehouse_service_return(status)
        IN  /\ services_status' = [services_status EXCEPT !["warehouse"] = g.st]
            /\ items' = IF served THEN r.items ELSE items
            /\ order_items' = IF served THEN r.order_items ELSE order_items
            /\ Step(s,
                        IF res = "Ok" THEN Finish([s EXCEPT !.path = "compensated"], s.err)
                        ELSE Finish([s EXCEPT !.path = "compensation_failed"], res))
    /\ UNCHANGED <<call, warranty, orders, next_order_uid, envvars, workervars>>

\* model.rs create_order, lines 303-308: insert the Order row, return order_uid
create_order_insert(s) ==
    /\ s.pc = "insert"
    /\ \E dbOk \in BOOLEAN :
        IF dbOk THEN
            /\ orders' = insert_order(orders, [order_uid |-> s.order_uid,
                                               item_uid |-> s.item_uid,
                                               status |-> "PAID"])
            /\ Step(s, Finish(s, "Ok"))
        ELSE
            /\ orders' = orders
            /\ Step(s, Finish(s, "DieselError"))
    /\ UNCHANGED <<call, items, order_items, warranty, next_order_uid, services_status,
                   envvars, workervars>>

\* model.rs return_order, lines 318-332: load the order, release at Warehouse
return_order_release(record) ==
    /\ BagCardinality(sagas) < Cardinality(Handlers)
    /\ \A i \in ItemIds : items[i] < MaxCount
    /\ \E uid \in OrderUids :
        LET found == load_by_order_id(orders, uid)
            st == [Idle EXCEPT !.kind = "return", !.order_uid = uid]
        IN  IF found = {} THEN
                /\ Start(
                            Finish([st EXCEPT !.path = "not_found"], "OrderNotFoundErr"), record)
                /\ UNCHANGED <<items, order_items, services_status>>
            ELSE \E o \in Outcomes("warehouse") :
                LET order == CHOOSE r \in found : TRUE
                    g == Gate(services_status["warehouse"], o)
                    served == g.response = "served"
                    r == wh_cancel_order(items, order_items, order.item_uid)
                    status == http_status(g, r.status)
                    res == request_warehouse_service_return(status)
                    st1 == [st EXCEPT !.item_uid = order.item_uid]
                IN  /\ services_status' = [services_status EXCEPT !["warehouse"] = g.st]
                    /\ items' = IF served THEN r.items ELSE items
                    /\ order_items' = IF served THEN r.order_items ELSE order_items
                    /\ Start(
                                IF res = "Ok" THEN [st1 EXCEPT !.pc = "close"]
                                ELSE Finish([st1 EXCEPT !.path = "release_failed"], res), record)
    /\ UNCHANGED <<call, warranty, orders, next_order_uid, envvars, workervars>>

\* model.rs return_order, lines 334-345: close the warranty
return_order_close(s) ==
    /\ s.pc = "close"
    /\ \E o \in Outcomes("warranty") :
        LET g == Gate(services_status["warranty"], o)
            served == g.response = "served"
            r == close_warranty(warranty, s.item_uid)
            status == http_status(g, r.status)
            res == request_warranty_service_stop(status)
        IN  /\ services_status' = [services_status EXCEPT !["warranty"] = g.st]
            /\ warranty' = IF served THEN r.warranty ELSE warranty
            /\ Step(s,
                        IF res = "Ok" THEN [s EXCEPT !.pc = "update"]
                        ELSE [s EXCEPT !.pc = "info", !.err = res])
    /\ UNCHANGED <<call, items, order_items, orders, next_order_uid, envvars, workervars>>

\* model.rs return_order, lines 346-354: compensation, fetch the item's model and size
return_order_info(s) ==
    /\ s.pc = "info"
    /\ \E o \in Outcomes("warehouse") :
        LET g == Gate(services_status["warehouse"], o)
            r == wh_get_item(order_items, s.item_uid)
            status == http_status(g, r.status)
            res == request_warehouse_service_item_info(status)
        IN  /\ services_status' = [services_status EXCEPT !["warehouse"] = g.st]
            /\ Step(s,
                        IF res = "Ok" THEN [s EXCEPT !.pc = "rereserve", !.model = r.model]
                        ELSE Finish([s EXCEPT !.path = "compensation_failed"], res))
    /\ UNCHANGED <<call, dbvars, next_order_uid, envvars, workervars>>

\* model.rs return_order, lines 356-373: compensation, reserve again under the same
\* order_uid, then return the warranty error
return_order_rereserve(s) ==
    /\ s.pc = "rereserve"
    /\ \E o \in Outcomes("warehouse") :
        LET g == Gate(services_status["warehouse"], o)
            served == g.response = "served"
            r == wh_create_order(items, order_items, s.order_uid, s.model)
            status == http_status(g, r.status)
            res == request_warehouse_service_item(status)
        IN  /\ services_status' = [services_status EXCEPT !["warehouse"] = g.st]
            /\ items' = IF served THEN r.items ELSE items
            /\ order_items' = IF served THEN r.order_items ELSE order_items
            /\ Step(s,
                        IF res = "Ok" THEN Finish([s EXCEPT !.path = "compensated"], s.err)
                        ELSE Finish([s EXCEPT !.path = "compensation_failed"], res))
    /\ UNCHANGED <<call, warranty, orders, next_order_uid, envvars, workervars>>

\* model.rs return_order, lines 375-377: set the order CANCELED, return Ok
return_order_update(s) ==
    /\ s.pc = "update"
    /\ \E dbOk \in BOOLEAN :
        IF dbOk THEN
            /\ orders' = update_order_status(orders, s.order_uid, "CANCELED")
            /\ Step(s, Finish([s EXCEPT !.path = "returned"], "Ok"))
        ELSE
            /\ orders' = orders
            /\ Step(s, Finish([s EXCEPT !.path = "update_failed"], "DieselError"))
    /\ UNCHANGED <<call, items, order_items, warranty, next_order_uid, services_status,
                   envvars, workervars>>

\* ====================== Order service: deferred enrolment worker
\* the sequence s without its first occurrence of x
RECURSIVE RemoveFirst(_, _)
RemoveFirst(s, x) ==
    IF s = <<>> THEN <<>>
    ELSE IF Head(s) = x THEN Tail(s)
    ELSE <<Head(s)>> \o RemoveFirst(Tail(s), x)

\* model.rs create_queue_consumer, lines 157-160 and 183-186: the top of the loop.
\* A healthy probe declares the queue and subscribes; otherwise basic.recover(requeue)
\* puts the channel's unacked deliveries back in the queue and the worker sleeps
worker_top ==
    /\ warranty_polling_thread = "running"
    /\ wpc = "top"
    /\ \E probeOk \in BOOLEAN :
        /\ stable["warranty"] => probeOk
        /\ IF get_service_status(probeOk) THEN
               /\ wpc' = "recv"
               /\ UNCHANGED <<ready, unacked, wsleep>>
           ELSE
               /\ ready' = unacked \o ready
               /\ unacked' = <<>>
               /\ wpc' = "sleep"
               /\ wsleep' = SERVICES_UPDATE_DURATION
    /\ UNCHANGED <<before, call, dbvars, next_order_uid, services_status, envvars,
                   warranty_polling_thread, inbox, published, sagas>>
    /\ last' = NoResponse

\* model.rs line 185: thread::sleep(SERVICES_UPDATE_DURATION) is over
worker_wake ==
    /\ wpc = "sleep"
    /\ wsleep = 0
    /\ wpc' = "top"
    /\ UNCHANGED <<before, call, dbvars, next_order_uid, services_status, envvars,
                   warranty_polling_thread, wsleep, ready, unacked, inbox, published, sagas>>
    /\ last' = NoResponse

\* the broker pushes the next ready message to the subscribed consumer (model.rs
\* line 160, consume with default options: no prefetch limit); it stays unacked
broker_deliver ==
    /\ wpc = "recv"
    /\ ready # <<>>
    /\ inbox' = Append(inbox, Head(ready))
    /\ unacked' = Append(unacked, Head(ready))
    /\ ready' = Tail(ready)
    /\ UNCHANGED <<before, call, dbvars, next_order_uid, services_status, envvars,
                   warranty_polling_thread, wpc, wsleep, published, sagas>>
    /\ last' = NoResponse

\* fault injection: the delivery is acked whatever the enrol call returned
worker_acks_always(result) == TRUE

\* model.rs lines 170-174: `if result.is_ok() { consumer.ack(delivery) } else { break }`
worker_acks(result) == result = "Ok"

\* model.rs lines 162-182: take a delivery, enrol, ack on success; on failure break,
\* cancel the consumer (deliveries already received stay unacked) and loop
worker_handle ==
    /\ wpc = "recv"
    /\ inbox # <<>>
    /\ \E o \in Outcomes("warranty") :
        LET item_uid == Head(inbox)
            g == Gate(services_status["warranty"], o)
            served == g.response = "served"
            r == add_warranty(warranty, item_uid)
            status == http_status(g, r.status)
            res == request_warranty_service_start(status)
        IN  /\ services_status' = [services_status EXCEPT !["warranty"] = g.st]
            /\ warranty' = IF served THEN r.warranty ELSE warranty
            /\ IF worker_acks(res) THEN
                   /\ unacked' = RemoveFirst(unacked, item_uid)
                   /\ inbox' = Tail(inbox)
                   /\ wpc' = "recv"
               ELSE
                   /\ unacked' = unacked
                   /\ inbox' = <<>>
                   /\ wpc' = "top"
    /\ UNCHANGED <<before, call, items, order_items, orders, next_order_uid, envvars,
                   warranty_polling_thread, wsleep, ready, published, sagas>>
    /\ last' = NoResponse

\* ===================================================== environment
\* a peer goes down or comes back
flip(p) ==
    /\ stable' = [stable EXCEPT ![p] = ~@]
    /\ UNCHANGED <<before, call, dbvars, next_order_uid, services_status, queue_conn,
                   whvars, store, verdict, gw, wk, workervars, sagas>>
    /\ last' = NoResponse

\* d seconds pass: Instant::now() advances past every registry entry's updated, and
\* the sleeping worker gets closer to waking
elapse(d) ==
    /\ \/ \E p \in Peers : services_status[p].age < SERVICES_UPDATE_DURATION
       \/ wsleep > 0
    /\ services_status' = [p \in Peers |->
           [services_status[p] EXCEPT !.age = Min2(@ + d, SERVICES_UPDATE_DURATION)]]
    /\ wsleep' = IF wsleep > d THEN wsleep - d ELSE 0
    /\ last' = NoResponse
    /\ call' = NoCall
    /\ UNCHANGED <<before, dbvars, next_order_uid, envvars, warranty_polling_thread, wpc,
                   ready, unacked, inbox, published, sagas>>

\* one second passes
tick == elapse(1)

\* a whole cooldown passes, seen through what the sagas and the worker read of the clock:
\* update_service_status reads updated only of an entry that is down, so the age of
\* an up entry is left as it is
cooldown ==
    /\ \/ \E p \in Peers : ~services_status[p].up
                            /\ services_status[p].age < SERVICES_UPDATE_DURATION
       \/ wsleep > 0
    /\ services_status' = [p \in Peers |->
           IF services_status[p].up THEN services_status[p]
           ELSE [services_status[p] EXCEPT !.age = SERVICES_UPDATE_DURATION]]
    /\ wsleep' = 0
    /\ last' = NoResponse
    /\ call' = NoCall
    /\ UNCHANGED <<before, dbvars, next_order_uid, envvars, warranty_polling_thread, wpc,
                   ready, unacked, inbox, published, sagas>>

\* ============================== Order service: the gateway on its own
\* the gateway functions that call peer p
RequestsOf(p) ==
    IF p = "warehouse" THEN {"item", "item_info", "return"} ELSE {"start", "stop"}

\* the statuses the peer's route answers to request f when its handler runs
\* (warehouse routes.rs add_order_item, get_item_info, delete_order_item; warranty
\* routes.rs request_warranty, delete_warranty)
StatusesOf(f) ==
    CASE f = "item" -> {200, 404, 409, 400}
      [] f = "item_info" -> {200, 404}
      [] f = "return" -> {204, 404, 422}
      [] f = "start" -> {204, 400}
      [] f = "stop" -> {204, 400}

\* the gateway function's classification of what came back
Classify(f, status) ==
    CASE f = "item" -> request_warehouse_service_item(status)
      [] f = "item_info" -> request_warehouse_service_item_info(status)
      [] f = "return" -> request_warehouse_service_return(status)
      [] f = "start" -> request_warranty_service_start(status)
      [] f = "stop" -> request_warranty_service_stop(status)

\* gateway.rs request_*: one call to peer p through the gate, whatever the peer answers.
\* The answer of a probe that is not sent and the status of a handler that does not
\* run are not enumerated: nothing reads them
gateway_request(p) ==
    /\ \E f \in RequestsOf(p), o \in NetOutcomes(p) : \E handlerStatus \in StatusesOf(f) :
        LET g == Gate(services_status[p], o)
            status == http_status(g, handlerStatus)
        IN  /\ ~probe_due(services_status[p]) => o.probeOk
            /\ g.response # "served" => handlerStatus = CHOOSE x \in StatusesOf(f) : TRUE
            /\ services_status' = [services_status EXCEPT ![p] = g.st]
            /\ call' = [peer |-> p, req |-> f, outs |-> o.outs,
                        probe |-> IF ~g.probed THEN "none"
                                  ELSE IF get_service_status(o.probeOk) THEN "ok"
                                  ELSE "failed",
                        attempts |-> g.attempts, status |-> status,
                        result |-> Classify(f, status)]
    /\ last' = NoResponse
    /\ UNCHANGED <<before, dbvars, next_order_uid, envvars, workervars, sagas>>

\* ========================== the health probe and the health endpoint
\* routes.rs Admin::from_request + health_check: the status GET /manage/health is
\* answered with.  Without an Authorization header, or with the credentials of a user
\* who is not admin, the guard fails with 401; the handler itself answers 200 whether
\* the database connection is there (body UP) or not (body DOWN)
health_check_status(auth_header, connOk) ==
    IF auth_header = "admin" THEN 200 ELSE 401

\* fault injection: only a 2xx answer counts
probe_answered_success_only(status) == status = 200

\* gateway.rs get_service_status, `match result { Ok(_) => true, Err(_) => false }`:
\* send() is Ok for any response that arrives within the timeout, whatever its
\* status (status 0 stands for no response: transport failure or timeout)
probe_answered(status) == status # 0

\* what comes back to a probe of peer p, which carries no Authorization header: a
\* stable peer answers through its health endpoint; of an unstable one nothing is
\* known, the probe may get no response, the endpoint's answer or a 5xx
ProbeAnswers(p) ==
    {health_check_status("none", connOk) : connOk \in BOOLEAN}
        \cup (IF stable[p] THEN {} ELSE {0, 500, 503})

\* gateway.rs get_service_status called on its own, as the worker does at the top of
\* its loop (model.rs line 157): the registry is not an argument and not touched
direct_probe(p) ==
    /\ \E answer \in ProbeAnswers(p) :
        call' = [peer |-> p, req |-> "health", outs |-> <<>>,
                 probe |-> IF get_service_status(probe_answered(answer)) THEN "ok"
                           ELSE "failed",
                 attempts |-> 1, status |-> answer, result |-> "none"]
    /\ last' = NoResponse
    /\ UNCHANGED <<services_status, before, dbvars, next_order_uid, envvars, workervars,
                   sagas>>

\* ============== Warehouse service: a request, statement by statement
\* Rocket runs the Warehouse handlers on several threads; a handler is a sequence of
\* diesel statements on its own connection, with no transaction around them
\* (warehouse model.rs, db.rs), so each statement is one step.

\* a request thread: its position, the request (op, order_uid, model, item_uid), and
\* the handler's locals: count is item.available_count, vec the rows a query returned
WhIdle == [pc |-> "idle", op |-> "none", order_uid |-> NoUid, model |-> "none",
           item_uid |-> NoUid, count |-> 0, vec |-> {}]

NoWhResponse == [op |-> "none", order_uid |-> NoUid, item_uid |-> NoUid, status |-> 0]

\* the item_uids a release request may carry: those of the rows there can be, and one more
WhItemUids == 1..(MaxRequests + 1)

\* everything but the Warehouse tables and threads
ordervars == <<warranty, orders, next_order_uid, services_status, stable, queue_conn,
               workervars, sagas, last, before, call, store, verdict, gw, wk>>

\* the handler of thread t returns: the route turns the result into a status, the
\* thread is free again; wh_hist counts the answered reserves and releases
WhFinish(t, status, item_uid) ==
    LET r == wh_reqs[t] IN
    /\ wh_reqs' = [wh_reqs EXCEPT ![t] = WhIdle]
    /\ wh_hist' = [wh_hist EXCEPT
           !.resp = [op |-> r.op, order_uid |-> r.order_uid, item_uid |-> item_uid,
                     status |-> status],
           !.reserves = IF r.op = "reserve" /\ status = 200
                        THEN [@ EXCEPT ![r.order_uid] = @ + 1] ELSE @,
           !.releases = IF r.op = "release" /\ status = 204 THEN @ + 1 ELSE @,
           !.first = IF r.op = "reserve" /\ status = 200 /\ @[r.order_uid] = NoUid
                     THEN [@ EXCEPT ![r.order_uid] = item_uid] ELSE @,
           !.canceled = IF r.op = "reserve" /\ status = 200
                        THEN [@ EXCEPT ![r.order_uid] = FALSE]
                        ELSE IF r.op = "release" /\ status = 204
                        THEN [@ EXCEPT ![r.order_uid] = TRUE] ELSE @]

\* the thread t goes on to position pc with its locals changed as in loc
WhGoto(t, loc) ==
    /\ wh_reqs' = [wh_reqs EXCEPT ![t] = loc]
    /\ wh_hist' = [wh_hist EXCEPT !.resp = NoWhResponse]

\* routes.rs add_order_item -> model.rs create_order, line 186: a reserve request
\* comes in and the handler loads the item for (model, size)
wh_create_order_load_item(t) ==
    /\ wh_reqs[t].pc = "idle"
    /\ wh_hist.started < MaxRequests
    /\ \E u \in OrderUids, m \in Models :
        LET r == [WhIdle EXCEPT !.op = "reserve", !.order_uid = u, !.model = m]
            h == [wh_hist EXCEPT !.started = @ + 1,
                                 !.pre = [items |-> items, order_items |-> order_items]]
        IN  IF load_item(m) = {} THEN
                /\ wh_reqs' = wh_reqs
                /\ wh_hist' = [h EXCEPT !.resp = [op |-> "reserve", order_uid |-> u,
                                                  item_uid |-> NoUid, status |-> 404]]
            ELSE
                /\ wh_reqs' = [wh_reqs EXCEPT ![t] =
                       [r EXCEPT !.pc = "update_item",
                                 !.count = items[CHOOSE j \in load_item(m) : TRUE]]]
                /\ wh_hist' = [h EXCEPT !.resp = NoWhResponse]
    /\ UNCHANGED <<items, order_items, ordervars>>

\* model.rs create_order, lines 189-191: decrement the loaded item, write it back
wh_create_order_update_item(t) ==
    /\ wh_reqs[t].pc = "update_item" /\ wh_reqs[t].op = "reserve"
    /\ LET r == wh_reqs[t]
           i == CHOOSE j \in load_item(r.model) : TRUE
           d == decrement_count(r.count)
       IN  IF ~d.ok THEN
               /\ WhFinish(t, 409, NoUid)
               /\ items' = items
           ELSE
               /\ items' = [items EXCEPT ![i] = d.count]
               /\ WhGoto(t, [r EXCEPT !.pc = "load_order", !.count = d.count])
    /\ UNCHANGED <<order_items, ordervars>>

\* model.rs create_order, line 193: load the rows of the order_uid
wh_create_order_load_order(t) ==
    /\ wh_reqs[t].pc = "load_order"
    /\ WhGoto(t, [wh_reqs[t] EXCEPT !.pc = "write_order",
                                    !.vec = load_order_uid(order_items, wh_reqs[t].order_uid)])
    /\ UNCHANGED <<items, order_items, ordervars>>

\* model.rs create_order, lines 195-212: set the rows of the order_uid live if the
\* query found any, else insert a row with a fresh order_item_uid; return vec.pop()
wh_create_order_write_order(t) ==
    /\ wh_reqs[t].pc = "write_order"
    /\ LET r == wh_reqs[t]
           i == CHOOSE j \in load_item(r.model) : TRUE
       IN  IF r.vec # {} THEN
               /\ order_items' = wh_update_order_status(order_items, r.order_uid, FALSE)
               /\ WhFinish(t, 200, pop(r.vec).order_item_uid)
           ELSE
               /\ order_items' = order_items \cup
                      {[id |-> Cardinality(order_items) + 1, canceled |-> FALSE,
                        order_item_uid |-> new_item_uid(order_items),
                        order_uid |-> r.order_uid, item_id |-> i]}
               /\ WhFinish(t, 200, new_item_uid(order_items))
    /\ UNCHANGED <<items, ordervars>>

\* routes.rs delete_order_item -> model.rs cancel_order, lines 244-247: a release
\* request comes in and the handler loads the row of the order_item_uid
wh_cancel_order_load_order(t) ==
    /\ wh_reqs[t].pc = "idle"
    /\ wh_hist.started < MaxRequests
    /\ \E uid \in WhItemUids :
        LET found == load_order_item_uid(order_items, uid)
            h == [wh_hist EXCEPT !.started = @ + 1,
                                 !.pre = [items |-> items, order_items |-> order_items]]
        IN  IF found = {} THEN
                /\ wh_reqs' = wh_reqs
                /\ wh_hist' = [h EXCEPT !.resp = [op |-> "release", order_uid |-> NoUid,
                                                  item_uid |-> uid, status |-> 404]]
            ELSE
                /\ wh_reqs' = [wh_reqs EXCEPT ![t] =
                       [WhIdle EXCEPT !.pc = "cancel", !.op = "release",
                                      !.order_uid = pop(found).order_uid,
                                      !.item_uid = uid, !.vec = {pop(found)}]]
                /\ wh_hist' = [h EXCEPT !.resp = NoWhResponse]
    /\ UNCHANGED <<items, order_items, ordervars>>

\* model.rs cancel_order, line 249: set the rows of the order_uid canceled
wh_cancel_order_update_order(t) ==
    /\ wh_reqs[t].pc = "cancel"
    /\ order_items' = wh_update_order_status(order_items, wh_reqs[t].order_uid, TRUE)
    /\ WhGoto(t, [wh_reqs[t] EXCEPT !.pc = "load_item"])
    /\ UNCHANGED <<items, ordervars>>

\* model.rs cancel_order, lines 251-254: load the item of the row
wh_cancel_order_load_item(t) ==
    /\ wh_reqs[t].pc = "load_item"
    /\ WhGoto(t, [wh_reqs[t] EXCEPT !.pc = "update_item",
                                    !.count = items[pop(wh_reqs[t].vec).item_id]])
    /\ UNCHANGED <<items, order_items, ordervars>>

\* model.rs cancel_order, lines 256-260: increment the loaded item, write it back
wh_cancel_order_update_item(t) ==
    /\ wh_reqs[t].pc = "update_item" /\ wh_reqs[t].op = "release"
    /\ items' = [items EXCEPT ![pop(wh_reqs[t].vec).item_id] =
                     increment_count(wh_reqs[t].count)]
    /\ WhFinish(t, 204, wh_reqs[t].item_uid)
    /\ UNCHANGED <<order_items, ordervars>>

\* ========================= Order service: the warranty verdict
\* gateway.rs request_warehouse_service_decision: classification of the response
request_warehouse_service_decision(status) ==
    IF status = 0 THEN "WarehouseServiceAccessErr"
    ELSE IF status = 404 THEN "ItemNotFound"
    ELSE IF status # 200 THEN "WarehouseServiceAccessErr"
    ELSE "Ok"

\* routes.rs get_order_warranty_handler: the status for each result of
\* get_warranty_decision
get_order_warranty_handler(result) ==
    IF result = "Ok" THEN 200
    ELSE IF result = "OrderNotFoundErr" THEN 404
    ELSE IF result = "WarrantyServiceAccessErr" THEN 422
    ELSE 400

\* POST /api/v1/orders/<order_uid>/warranty: model.rs get_warranty_decision loads the
\* order and asks Warehouse for the decision on its item; Warehouse's route
\* (request_item_warranty) answers 200, 404, 422 or 400.  path tells how the call went
get_warranty_decision ==
    /\ \E order_uid \in OrderUids :
        IF load_by_order_id(orders, order_uid) = {} THEN
            /\ last' = [kind |-> "verdict", order_uid |-> order_uid, item_uid |-> NoUid,
                        result |-> "OrderNotFoundErr",
                        http |-> get_order_warranty_handler("OrderNotFoundErr"),
                        path |-> "no_call"]
            /\ UNCHANGED services_status
        ELSE
            \E o \in Outcomes("warehouse"), handlerStatus \in {200, 404, 422, 400} :
                LET order == CHOOSE r \in load_by_order_id(orders, order_uid) : TRUE
                    g == Gate(services_status["warehouse"], o)
                    status == http_status(g, handlerStatus)
                    result == request_warehouse_service_decision(status)
                IN  /\ g.response # "served" => handlerStatus = 200
                    /\ services_status' = [services_status EXCEPT !["warehouse"] = g.st]
                    /\ last' = [kind |-> "verdict", order_uid |-> order_uid,
                                item_uid |-> order.item_uid, result |-> result,
                                http |-> get_order_warranty_handler(result),
                                path |-> IF g.attempts = 0 THEN "circuit_open"
                                         ELSE IF g.response = "none" THEN "no_response"
                                         ELSE IF status \notin {200, 404}
                                              THEN "unexpected_status"
                                         ELSE "answered"]
    /\ UNCHANGED <<before, call, dbvars, next_order_uid, envvars, workervars, sagas>>

\* ============== Warranty service: requests sent straight to it
\* routes.rs request_warranty: POST /api/v1/warranty/<item_uid> from any client
wr_request_warranty(uid) ==
    /\ Cardinality(warranty) < MaxRequests
    /\ warranty' = add_warranty(warranty, uid).warranty
    /\ UNCHANGED <<items, order_items, orders, next_order_uid, services_status, envvars,
                   workervars, sagas, last, before, call>>

\* routes.rs delete_warranty: DELETE /api/v1/warranty/<item_uid>
wr_delete_warranty(uid) ==
    /\ warranty' = close_warranty(warranty, uid).warranty
    /\ UNCHANGED <<items, order_items, orders, next_order_uid, services_status, envvars,
                   workervars, sagas, last, before, call>>

\* ================= Warehouse and Warranty: the warranty verdict
\* the answer to a verdict request: item_num is the available_count the Warranty
\* handler was given (sent tells whether Warehouse sent it one)
NoVerdict == [svc |-> "none", item_uid |-> NoUid, sent |-> FALSE, item_num |-> 0,
              status |-> 0, verdict |-> "none"]

\* the item_uids a verdict may be asked for: those of the rows there can be, and one more
VerdictItemUids == 1..(MaxOrders + 1)

\* fault injection: the count is looked at before the status
wr_get_warranty_verdict_count_first(rows, uid, item_num) ==
    IF item_num < 0 THEN [status |-> 400, verdict |-> "none"]
    ELSE IF load_id(rows, uid) = {} THEN [status |-> 404, verdict |-> "none"]
    ELSE LET v == pop(load_id(rows, uid))
         IN  [status |-> 200,
              verdict |-> IF item_num > 0 THEN "RETURN"
                          ELSE IF v.status # "ON_WARRANTY" THEN "REFUSED"
                          ELSE "FIXING"]

\* warranty routes.rs request_warranty_verdict (validate_available_count: 400, any
\* error of the lookup: 404) + model.rs get_warranty_verdict
wr_get_warranty_verdict(rows, uid, item_num) ==
    IF item_num < 0 THEN [status |-> 400, verdict |-> "none"]
    ELSE IF load_id(rows, uid) = {} THEN [status |-> 404, verdict |-> "none"]
    ELSE LET v == pop(load_id(rows, uid))
         IN  [status |-> 200,
              verdict |-> IF v.status # "ON_WARRANTY" THEN "REFUSED"
                          ELSE IF item_num > 0 THEN "RETURN"
                          ELSE "FIXING"]

\* warehouse routes.rs request_item_warranty + model.rs get_warranty_verdict: get_item
\* resolves the order_items row and its item, available_count is put into the request,
\* gateway.rs request_warranty_service_item_verdict forwards it (404 ->
\* WarrantyServiceItemNotFoundErr, anything else but 200 -> WarrantyServiceAccessErr).
\* reached: Warehouse's own health gate let the call through and Warranty answered
wh_get_warranty_verdict(its, rows, wrows, item_uid, reached) ==
    IF load_order_item_uid(rows, item_uid) = {} THEN
        [status |-> 404, sent |-> FALSE, item_num |-> 0, verdict |-> "none"]
    ELSE LET order == pop(load_order_item_uid(rows, item_uid))
             available_count == its[order.item_id]
         IN  IF ~reached THEN
                 [status |-> 422, sent |-> FALSE, item_num |-> 0, verdict |-> "none"]
             ELSE LET r == wr_get_warranty_verdict(wrows, item_uid, available_count)
                  IN  [status |-> IF r.status \in {200, 404} THEN r.status ELSE 422,
                       sent |-> TRUE, item_num |-> available_count,
                       verdict |-> r.verdict]

\* POST /api/v1/warranty/<item_uid>/warranty from any client
wr_request_warranty_verdict ==
    /\ \E uid \in VerdictItemUids, item_num \in (-1)..MaxCount :
        LET r == wr_get_warranty_verdict(warranty, uid, item_num)
        IN  verdict' = [svc |-> "warranty", item_uid |-> uid, sent |-> TRUE,
                        item_num |-> item_num, status |-> r.status,
                        verdict |-> r.verdict]
    /\ UNCHANGED <<dbvars, next_order_uid, services_status, stable, queue_conn, whvars,
                   store, gw, wk, workervars, sagas, last, before, call>>

\* POST /api/v1/warehouse/<item_uid>/warranty from any client
wh_request_item_warranty ==
    /\ \E item_uid \in VerdictItemUids, reached \in BOOLEAN :
        LET r == wh_get_warranty_verdict(items, order_items, warranty, item_uid, reached)
        IN  verdict' = [svc |-> "warehouse", item_uid |-> item_uid, sent |-> r.sent,
                        item_num |-> r.item_num, status |-> r.status,
                        verdict |-> r.verdict]
    /\ UNCHANGED <<dbvars, next_order_uid, services_status, stable, queue_conn, whvars,
                   store, gw, wk, workervars, sagas, last, before, call>>

\* POST /api/v1/warehouse from any client, handled on its own
wh_add_order_item(order_uid, model) ==
    LET r == wh_create_order(items, order_items, order_uid, model)
    IN  /\ items' = r.items
        /\ order_items' = r.order_items
        /\ UNCHANGED <<ordervars, whvars>>

\* DELETE /api/v1/warehouse/<item_uid> from any client, handled on its own
wh_delete_order_item(item_uid) ==
    LET r == wh_cancel_order(items, order_items, item_uid)
    IN  /\ \A i \in ItemIds : items[i] < MaxCount
        /\ items' = r.items
        /\ order_items' = r.order_items
        /\ UNCHANGED <<ordervars, whvars>>

\* ==================================================== Store service
\* Store keeps a health registry of its own, with one entry per peer it calls
\* (store main.rs ServicesStatus), and goes through the same gate as Order does
\* (store gateway.rs).  A request handler's outbound calls are its steps.
StorePeers == {"order", "warehouse", "warranty"}
StoreOps == {"orders", "order", "verdict", "purchase", "refund"}
\* the users table is read-only: "u1" is a row of it, "u0" is not
users == {"u1"}
UserUids == {"u1", "u0"}

\* the lists of orders Order may answer the orders list with
OrderLists ==
    {l \in UNION {[1..n -> OrderUids] : n \in 0..MaxList} :
        \A i, j \in 1..Len(l) : i # j => l[i] # l[j]}

\* SolidOrderInfo under construction; wh and wr are the statuses the two reads got
NoSolidInfo == [order_uid |-> NoUid, model |-> "None", warranty_status |-> "None",
                wh |-> 0, wr |-> 0]

\* a response of Store and its history: status is what Order answered (0: nothing),
\* orders the list it carried, called the peers a request was sent to on the way
NoStoreResponse == [op |-> "none", user_uid |-> "none", result |-> "none", http |-> 0,
                    status |-> 0, orders |-> <<>>, out |-> <<>>, called |-> {}]

\* fault injection: every user_uid passes
verify_user_any(rows, user_uid) == TRUE

\* store db.rs load_user_by_id + model.rs verify_user: `vec.pop().ok_or(UserNotFoundErr)`
verify_user(rows, user_uid) == user_uid \in rows

\* fault injection: a 404 from Warehouse is taken for the item
store_request_warehouse_service_item_info_lax(status) ==
    IF status = 0 THEN "WarehouseServiceAccessErr"
    ELSE IF status = 404 THEN "Ok"
    ELSE IF status # 200 THEN "WarehouseServiceAccessErr"
    ELSE "Ok"

\* store gateway.rs request_warehouse_service_item_info: classification of the response
store_request_warehouse_service_item_info(status) ==
    IF status = 0 THEN "WarehouseServiceAccessErr"
    ELSE IF status = 404 THEN "ItemNotFound"
    ELSE IF status # 200 THEN "WarehouseServiceAccessErr"
    ELSE "Ok"

\* store gateway.rs request_warranty_service_warranty_info
request_warranty_service_warranty_info(status) ==
    IF status = 0 THEN "WarrantyServiceAccessErr"
    ELSE IF status = 404 THEN "WarrantyNotFoundErr"
    ELSE IF status # 200 THEN "WarrantyServiceAccessErr"
    ELSE "Ok"

\* fault injection: any answer of Order is taken for the list
request_order_service_user_orders_any_answer(status) ==
    IF status = 0 THEN "OrderServiceAccessErr" ELSE "Ok"

\* store gateway.rs request_order_service_user_orders
request_order_service_user_orders(status) ==
    IF status = 0 THEN "OrderServiceAccessErr"
    ELSE IF status # 200 THEN "OrderServiceAccessErr"
    ELSE "Ok"

\* store gateway.rs request_order_service_user_order
request_order_service_user_order(status) ==
    IF status = 0 THEN "OrderServiceAccessErr"
    ELSE IF status = 404 THEN "OrderNotFoundErr"
    ELSE IF status # 200 THEN "OrderServiceAccessErr"
    ELSE "Ok"

\* store gateway.rs request_order_service_warranty_decision
request_order_service_warranty_decision(status) ==
    IF status = 0 THEN "OrderServiceAccessErr"
    ELSE IF status = 404 THEN "OrderNotFoundErr"
    ELSE IF status # 200 THEN "OrderServiceAccessErr"
    ELSE "Ok"

\* store gateway.rs request_order_service_create_order
request_order_service_create_order(status) ==
    IF status = 0 THEN "OrderServiceAccessErr"
    ELSE IF status = 409 THEN "ItemIsNotAvailable"
    ELSE IF status # 200 THEN "OrderServiceAccessErr"
    ELSE "Ok"

\* store gateway.rs request_order_service_return_order
request_order_service_return_order(status) ==
    IF status = 0 THEN "OrderServiceAccessErr"
    ELSE IF status = 404 THEN "OrderNotFoundErr"
    ELSE IF status # 204 THEN "OrderServiceAccessErr"
    ELSE "Ok"

\* the gateway function each Store operation calls Order with
StoreClassify(op, status) ==
    CASE op = "orders" -> request_order_service_user_orders(status)
      [] op = "order" -> request_order_service_user_order(status)
      [] op = "verdict" -> request_order_service_warranty_decision(status)
      [] op = "purchase" -> request_order_service_create_order(status)
      [] op = "refund" -> request_order_service_return_order(status)

\* the statuses Order's route answers when its handler runs (order routes.rs
\* get_all_user_orders_handler, get_order_info_handler, get_order_warranty_handler,
\* make_order_handler, return_order_handler)
StoreStatusesOf(op) ==
    CASE op = "orders" -> {200, 400}
      [] op = "order" -> {200, 404, 400}
      [] op = "verdict" -> {200, 404, 422, 400}
      [] op = "purchase" -> {200, 409, 422, 500, 400}
      [] op = "refund" -> {204, 400}

\* store routes.rs: the status each handler answers with
store_responder(op, result) ==
    IF result = "Ok" THEN
        CASE op = "purchase" -> 201
          [] op = "refund" -> 204
          [] OTHER -> 200
    ELSE IF result = "UserNotFoundErr" THEN 404
    ELSE IF result = "ItemIsNotAvailable" /\ op = "purchase" THEN 409
    ELSE IF result \in {"OrderServiceAccessErr", "WarehouseServiceAccessErr",
                        "WarrantyServiceAccessErr"} THEN 422
    ELSE 400

\* what the network may do to one of Store's calls; of outcomes Store cannot tell
\* apart (the answer to a probe that is not sent, the attempts after an answered
\* one) one representative is kept
StoreOutcomes(st) ==
    {o \in [probeOk : BOOLEAN, outs : [1..SERVICES_CALLOUT_NUMBER -> AttemptOutcomes]] :
        /\ ~probe_due(st) => o.probeOk
        /\ \A i \in 1..(SERVICES_CALLOUT_NUMBER - 1) :
              o.outs[i] # "transport" => o.outs[i + 1] = "served"}

\* the peer, if the gate put a request to it on the wire: the health probe, an attempt
Called(p, g) == IF g.probed \/ g.attempts > 0 THEN {p} ELSE {}

\* the handler returns: the route turns the result into a status
StoreFinish(registry, op, user_uid, result, status, list, out, called) ==
    [registry |-> registry, pc |-> "idle", op |-> "none", user_uid |-> "none",
     status |-> 0, orders |-> <<>>, out |-> <<>>, cur |-> NoSolidInfo, called |-> {},
     resp |-> [op |-> op, user_uid |-> user_uid, result |-> result,
               http |-> store_responder(op, result), status |-> status,
               orders |-> list, out |-> out, called |-> called]]

\* what Order's answer carries: the user's orders, or the one order asked for
ListsOf(op, result) ==
    IF result # "Ok" THEN {<<>>}
    ELSE IF op = "orders" THEN OrderLists
    ELSE IF op = "order" THEN {l \in OrderLists : Len(l) = 1}
    ELSE {<<>>}

\* model.rs get_orders_info / get_order_info / get_warranty_decision / purchase_item /
\* return_item, up to the answer of Order: verify_user, then the call to Order.  The two
\* views go on to get_solid_info for each order; the other operations return
store_request ==
    /\ store.pc = "idle"
    /\ \E op \in StoreOps, user_uid \in UserUids :
        IF ~verify_user(users, user_uid) THEN
            store' = StoreFinish(store.registry, op, user_uid, "UserNotFoundErr",
                                 0, <<>>, <<>>, {})
        ELSE
            \E o \in StoreOutcomes(store.registry["order"]),
               handlerStatus \in StoreStatusesOf(op) :
                LET g == Gate(store.registry["order"], o)
                    status == http_status(g, handlerStatus)
                    result == StoreClassify(op, status)
                    registry == [store.registry EXCEPT !["order"] = g.st]
                IN  /\ g.response # "served" =>
                           handlerStatus = CHOOSE x \in StoreStatusesOf(op) : TRUE
                    /\ \E list \in ListsOf(op, result) :
                        IF list = <<>> THEN
                            store' = StoreFinish(registry, op, user_uid, result,
                                                 status, <<>>, <<>>, Called("order", g))
                        ELSE
                            store' = [store EXCEPT !.registry = registry,
                                                   !.pc = "warehouse",
                                                   !.op = op,
                                                   !.user_uid = user_uid,
                                                   !.status = status,
                                                   !.orders = list,
                                                   !.out = <<>>,
                                                   !.called = Called("order", g),
                                                   !.resp = NoStoreResponse]
    /\ UNCHANGED corevars

\* model.rs get_solid_info, the Warehouse read: `item_info.ok()`, model and size are
\* set from Some(v)
store_get_solid_info_item ==
    /\ store.pc = "warehouse"
    /\ \E o \in StoreOutcomes(store.registry["warehouse"]), handlerStatus \in {200, 404} :
        LET g == Gate(store.registry["warehouse"], o)
            status == http_status(g, handlerStatus)
            item_info == store_request_warehouse_service_item_info(status)
        IN  /\ g.response # "served" => handlerStatus = 200
            /\ store' = [store EXCEPT
                   !.registry["warehouse"] = g.st,
                   !.pc = "warranty",
                   !.cur = [order_uid |-> store.orders[Len(store.out) + 1],
                            model |-> IF item_info = "Ok" THEN "m" ELSE "None",
                            warranty_status |-> "None",
                            wh |-> status, wr |-> 0],
                   !.called = @ \cup Called("warehouse", g)]
    /\ UNCHANGED corevars

\* model.rs get_solid_info, the Warranty read and `Ok(solid_order_info)`; the caller
\* pushes the record and goes on with the next order, or returns the list
store_get_solid_info_warranty ==
    /\ store.pc = "warranty"
    /\ \E o \in StoreOutcomes(store.registry["warranty"]), handlerStatus \in {200, 404} :
        LET g == Gate(store.registry["warranty"], o)
            status == http_status(g, handlerStatus)
            warranty_info == request_warranty_service_warranty_info(status)
            solid_order_info ==
                [store.cur EXCEPT
                    !.warranty_status = IF warranty_info = "Ok" THEN "ON_WARRANTY"
                                        ELSE "None",
                    !.wr = status]
            out == Append(store.out, solid_order_info)
            registry == [store.registry EXCEPT !["warranty"] = g.st]
        IN  /\ g.response # "served" => handlerStatus = 200
            /\ IF Len(out) = Len(store.orders) THEN
                   store' = StoreFinish(registry, store.op, store.user_uid, "Ok",
                                        store.status, store.orders, out,
                                        store.called \cup Called("warranty", g))
               ELSE
                   store' = [store EXCEPT !.registry = registry,
                                          !.pc = "warehouse",
                                          !.out = out,
                                          !.cur = NoSolidInfo,
                                          !.called = @ \cup Called("warranty", g)]
    /\ UNCHANGED corevars

\* another request thread of Store calls peer p while this one is between two calls:
\* the registry is shared by the threads (main.rs SERVICES_STATUS)
store_concurrent_call(p) ==
    /\ store.pc # "idle"
    /\ \E o \in StoreOutcomes(store.registry[p]) :
        LET g == Gate(store.registry[p], o)
        IN  /\ g.st # store.registry[p]
            /\ store' = [store EXCEPT !.registry[p] = g.st]
    /\ UNCHANGED corevars

\* a whole cooldown passes: update_service_status reads updated only of an entry
\* that is down, so the age of an up entry is left as it is
store_cooldown ==
    /\ \E p \in StorePeers : ~store.registry[p].up
                              /\ store.registry[p].age < SERVICES_UPDATE_DURATION
    /\ store' = [store EXCEPT
           !.registry = [p \in StorePeers |->
               IF store.registry[p].up THEN store.registry[p]
               ELSE [store.registry[p] EXCEPT !.age = SERVICES_UPDATE_DURATION]],
           !.resp = NoStoreResponse]
    /\ UNCHANGED corevars

\* ================= Order service: a gateway call, statement by statement
\* Every gateway function starts with `let mut services_status = SERVICES_STATUS.get()`
\* (Mutex::lock().unwrap()) and keeps the guard until it returns; the request handlers
\* and the worker thread all call through these functions.

\* the threads of the Order process that call peers
GwThreads == {"handler1", "handler2", "worker"}

\* a thread's position in the gateway function, the call it makes, what the retry
\* loop left in res; stale is history: another thread wrote the registry after this
\* thread's gate check and before its own registry update
GwIdle == [pc |-> "idle", peer |-> "none", req |-> "none", response |-> "none",
           stale |-> FALSE]

\* the calls thread t makes: the worker only enrols (create_queue_consumer)
GwCallsOf(t) ==
    IF t = "worker" THEN {<<"warranty", "start">>}
    ELSE UNION {{<<p, f>> : f \in RequestsOf(p)} : p \in Peers}

\* fault injection: the registry is handed out without waiting for its holder
registry_lock_granted_always(holder) == TRUE

\* Mutex::lock: granted when no thread holds the guard
registry_lock_granted(holder) == holder = "none"

\* a write to the registry by thread t: every other thread past its gate check and
\* before its own update has now read an entry that is no longer there
GwWritten(th, t, wrote) ==
    [u \in GwThreads |->
        IF wrote /\ u # t /\ th[u].pc \in {"send", "mark"}
        THEN [th[u] EXCEPT !.stale = TRUE] ELSE th[u]]

\* what a gateway step leaves alone
gwrest == <<before, call, last, dbvars, next_order_uid, stable, queue_conn, whvars, store,
            verdict, wk, workervars, sagas>>

\* gateway.rs request_*: SERVICES_STATUS.get()
gw_lock(t) ==
    /\ gw.th[t].pc = "idle"
    /\ registry_lock_granted(gw.holder)
    /\ \E c \in GwCallsOf(t) :
        gw' = [holder |-> t,
               th |-> [gw.th EXCEPT ![t] = [GwIdle EXCEPT !.pc = "gate", !.peer = c[1],
                                                          !.req = c[2]]]]
    /\ UNCHANGED <<services_status, gwrest>>

\* gateway.rs request_*: update_service_status, then `if !up { return Err(..) }`
gw_gate(t) ==
    /\ gw.th[t].pc = "gate"
    /\ \E probeOk \in BOOLEAN :
        LET p == gw.th[t].peer
            st1 == update_service_status(services_status[p], probeOk)
            th1 == GwWritten(gw.th, t, st1 # services_status[p])
        IN  /\ ~probe_due(services_status[p]) => probeOk
            /\ services_status' = [services_status EXCEPT ![p] = st1]
            /\ gw' = [gw EXCEPT !.th = [th1 EXCEPT ![t].pc =
                                            IF st1.up THEN "send" ELSE "return"]]
    /\ UNCHANGED gwrest

\* gateway.rs request_*: the retry loop
gw_send(t) ==
    /\ gw.th[t].pc = "send"
    /\ \E outs \in [1..SERVICES_CALLOUT_NUMBER -> AttemptOutcomes] :
        gw' = [gw EXCEPT !.th[t].pc = "mark",
                         !.th[t].response = send_with_retries(outs, 1).response]
    /\ UNCHANGED <<services_status, gwrest>>

\* gateway.rs request_*: `if res.is_none() { up = false; updated = now }`
gw_mark(t) ==
    /\ gw.th[t].pc = "mark"
    /\ LET p == gw.th[t].peer
           st1 == mark_after_send(services_status[p], gw.th[t].response)
           th1 == GwWritten(gw.th, t, st1 # services_status[p])
       IN  /\ services_status' = [services_status EXCEPT ![p] = st1]
           /\ gw' = [gw EXCEPT !.th = [th1 EXCEPT ![t].pc = "return"]]
    /\ UNCHANGED gwrest

\* gateway.rs request_*: the function returns and the guard is dropped
gw_return(t) ==
    /\ gw.th[t].pc = "return"
    /\ gw' = [holder |-> IF gw.holder = t THEN "none" ELSE gw.holder,
              th |-> [gw.th EXCEPT ![t] = GwIdle]]
    /\ UNCHANGED <<services_status, gwrest>>


\* ========= Order service: starting the worker, statement by statement
\* model.rs create_order, lines 266-287, for the purchases whose enrolment failed
\* while a queue connection exists: the worker-handle mutex is locked, the handle
\* tested, create_queue_consumer takes the guard by value (dropped when it returns),
\* then the queue connection is locked and the item_uid published.

\* the request-handler threads that may be in create_order at the same time
PurchaseThreads == {"handler1", "handler2", "handler3"}

\* a purchase's position in lines 266-287 and the item_uid it publishes
WkIdle == [pc |-> "idle", item_uid |-> NoUid]

\* fault injection: the worker handle is handed out without waiting for its holder
worker_lock_granted_always(holder) == TRUE

\* Mutex::lock on WARRANTY_POLLING_THREAD: granted when no thread holds the guard
worker_lock_granted(holder) == holder = "none"

\* fault injection: the guard is leaked, the mutex stays locked
drop_guard_leaked(holder, t) == holder

\* a MutexGuard going out of scope: the mutex is free again if t held it
drop_guard(holder, t) == IF holder = t THEN "none" ELSE holder

\* what a step of lines 266-287 leaves alone
wkrest == <<before, call, last, dbvars, next_order_uid, services_status, stable,
            queue_conn, whvars, store, verdict, gw, wpc, wsleep, unacked, inbox, sagas>>

\* line 269: WARRANTY_POLLING_THREAD.lock().unwrap()
wk_lock(t) ==
    /\ queue_conn = "Some"
    /\ wk.th[t].pc = "idle"
    /\ wk.started < MaxRequests
    /\ worker_lock_granted(wk.holder)
    /\ \E uid \in OrderUids :
        wk' = [wk EXCEPT !.holder = t, !.started = @ + 1,
                         !.th[t] = [pc |-> "check", item_uid |-> uid]]
    /\ UNCHANGED <<warranty_polling_thread, ready, published, wkrest>>

\* line 271: `if warranty_polling_thread.is_none()`
wk_check(t) ==
    /\ wk.th[t].pc = "check"
    /\ wk' = [wk EXCEPT !.th[t].pc = IF warranty_polling_thread = "none" THEN "spawn"
                                     ELSE "queue"]
    /\ UNCHANGED <<warranty_polling_thread, ready, published, wkrest>>

\* lines 272-273 and create_queue_consumer: lock the connection, open a channel
\* (failure returns AmpqError), spawn the thread and store its handle; the guard that
\* was moved in is dropped on either return
wk_spawn(t) ==
    /\ wk.th[t].pc = "spawn"
    /\ wk.qholder = "none"
    /\ \E channelOk \in BOOLEAN :
        IF channelOk THEN
            /\ warranty_polling_thread' = "running"
            /\ wk' = [wk EXCEPT !.holder = drop_guard(@, t), !.spawned = @ + 1,
                                !.th[t].pc = "queue"]
        ELSE
            /\ wk' = [wk EXCEPT !.holder = drop_guard(@, t), !.th[t] = WkIdle]
            /\ UNCHANGED warranty_polling_thread
    /\ UNCHANGED <<ready, published, wkrest>>

\* line 276: queue_conn.lock().unwrap()
wk_lock_queue(t) ==
    /\ wk.th[t].pc = "queue"
    /\ wk.qholder = "none"
    /\ wk' = [wk EXCEPT !.qholder = t, !.th[t].pc = "publish"]
    /\ UNCHANGED <<warranty_polling_thread, ready, published, wkrest>>

\* lines 278-287: open_channel, queue_declare, publish (each failure returns
\* AmpqError); the block ends and both guards are dropped
wk_publish(t) ==
    /\ wk.th[t].pc = "publish"
    /\ \E brokerOk \in BOOLEAN :
        IF brokerOk THEN
            /\ ready' = Append(ready, wk.th[t].item_uid)
            /\ published' = [published EXCEPT ![wk.th[t].item_uid] = @ + 1]
        ELSE UNCHANGED <<ready, published>>
    /\ wk' = [wk EXCEPT !.holder = drop_guard(@, t), !.qholder = drop_guard(@, t),
                        !.th[t] = WkIdle]
    /\ UNCHANGED <<warranty_polling_thread, wkrest>>


\* ================================================== specification
\* main.rs: SERVICES_STATUS starts up = true, updated = now; WARRANTY_POLLING_THREAD
\* starts None; the queue connection is Some or None for the whole run
Init ==
    /\ items = [i \in ItemIds |-> InitStock]
    /\ order_items = {}
    /\ warranty = {}
    /\ orders = {}
    /\ next_order_uid = 0
    /\ services_status = [p \in Peers |-> [up |-> TRUE, age |-> 0]]
    /\ stable = [p \in Peers |-> FALSE]
    /\ queue_conn \in {"Some", "None"}
    /\ warranty_polling_thread = "none"
    /\ wpc = "top"
    /\ wsleep = 0
    /\ ready = <<>>
    /\ unacked = <<>>
    /\ inbox = <<>>
    /\ published = [u \in OrderUids |-> 0]
    /\ sagas = EmptyBag
    /\ last = NoResponse
    /\ before = [items |-> items, orders |-> orders]
    /\ call = NoCall
    /\ wh_reqs = [t \in WhThreads |-> WhIdle]
    /\ wh_hist = [started |-> 0, resp |-> NoWhResponse,
                  reserves |-> [u \in OrderUids |-> 0], releases |-> 0,
                  first |-> [u \in OrderUids |-> NoUid],
                  canceled |-> [u \in OrderUids |-> FALSE],
                  pre |-> [items |-> items, order_items |-> order_items]]
    /\ store = [registry |-> [p \in StorePeers |-> [up |-> TRUE, age |-> 0]],
                pc |-> "idle", op |-> "none", user_uid |-> "none", status |-> 0,
                orders |-> <<>>, out |-> <<>>, cur |-> NoSolidInfo, called |-> {},
                resp |-> NoStoreResponse]
    /\ verdict = NoVerdict
    /\ gw = [holder |-> "none", th |-> [t \in GwThreads |-> GwIdle]]
    /\ wk = [holder |-> "none", qholder |-> "none", started |-> 0, spawned |-> 0,
             th |-> [t \in PurchaseThreads |-> WkIdle]]

StartNext ==
    \/ create_order_reserve(FALSE)
    \/ return_order_release(FALSE)

StepNext ==
    \/ \E s \in BagToSet(sagas) : create_order_enrol(s)
    \/ \E s \in BagToSet(sagas) : create_order_enqueue(s)
    \/ \E s \in BagToSet(sagas) : create_order_compensate(s)
    \/ \E s \in BagToSet(sagas) : create_order_insert(s)
    \/ \E s \in BagToSet(sagas) : return_order_close(s)
    \/ \E s \in BagToSet(sagas) : return_order_info(s)
    \/ \E s \in BagToSet(sagas) : return_order_rereserve(s)
    \/ \E s \in BagToSet(sagas) : return_order_update(s)

WorkerNext ==
    \/ worker_top
    \/ worker_wake
    \/ broker_deliver
    \/ worker_handle

EnvNext == cooldown

Next == StartNext \/ StepNext \/ WorkerNext \/ EnvNext

Spec == Init /\ [][Next]_vars

\* request handlers run one saga at a time (the worker and the environment still
\* interleave): the setting of the claims about a saga nobody interferes with
AllIdle == sagas = EmptyBag

SeqNext ==
    \/ AllIdle /\ create_order_reserve(TRUE)
    \/ AllIdle /\ return_order_release(TRUE)
    \/ StepNext
    \/ WorkerNext
    \/ EnvNext

SeqSpec == Init /\ [][SeqNext]_vars

\* every peer is reachable
AllStable == \A p \in Peers : stable[p]

\* all services come up and stay reachable, then purchases and returns are run one
\* at a time: every call is served at its first attempt, so the deferred path, the
\* compensations and the worker are never entered
ReachableNext ==
    \/ \E p \in Peers : ~stable[p] /\ flip(p)
    \/ AllStable /\ AllIdle /\ create_order_reserve(TRUE)
    \/ AllStable /\ AllIdle /\ return_order_release(TRUE)
    \/ \E s \in BagToSet(sagas) : create_order_enrol(s)
    \/ \E s \in BagToSet(sagas) : create_order_insert(s)
    \/ \E s \in BagToSet(sagas) : return_order_close(s)
    \/ \E s \in BagToSet(sagas) : return_order_update(s)

ReachableSpec == Init /\ [][ReachableNext]_vars

\* the sagas one at a time, the worker and the clock as in SeqSpec, with a network
\* that may also deliver an enrol request and answer it too late
LateNext ==
    \/ SeqNext
    \/ \E s \in BagToSet(sagas) : create_order_enrol_unanswered(s)

LateSpec == Init /\ [][LateNext]_vars

\* the gateway on its own: calls to the peers, whatever they answer, and time
GateNext == (\E p \in Peers : gateway_request(p)) \/ tick

GateSpec == Init /\ [][GateNext]_vars

\* the gateway calls, the clock, the peers going down and coming back, and the
\* health probe sent on its own
ProbeNext ==
    \/ \E p \in Peers : gateway_request(p)
    \/ tick
    \/ \E p \in Peers : flip(p)
    \/ \E p \in Peers : direct_probe(p)

ProbeSpec == Init /\ [][ProbeNext]_vars

\* the gateway under fair scheduling, seen for one peer (each call reads and writes
\* the entry of its own peer only): calls to Warranty keep being made and the clock
\* advances (weak fairness); Warranty goes down and comes back as it likes
GateLiveNext ==
    \/ gateway_request("warranty")
    \/ tick
    \/ flip("warranty")

GateLiveSpec ==
    /\ Init
    /\ [][GateLiveNext]_vars
    /\ WF_vars(tick)
    /\ WF_vars(gateway_request("warranty"))

\* the gateway functions of one Order process, called from its request handlers and
\* its worker thread at the same time, while the clock advances
MutexNext ==
    \/ \E t \in GwThreads : gw_lock(t)
    \/ \E t \in GwThreads : gw_gate(t)
    \/ \E t \in GwThreads : gw_send(t)
    \/ \E t \in GwThreads : gw_mark(t)
    \/ \E t \in GwThreads : gw_return(t)
    \/ tick

MutexSpec == Init /\ [][MutexNext]_vars

\* concurrent purchases of one Order process on the deferred path
SpawnNext ==
    \/ \E t \in PurchaseThreads : wk_lock(t)
    \/ \E t \in PurchaseThreads : wk_check(t)
    \/ \E t \in PurchaseThreads : wk_spawn(t)
    \/ \E t \in PurchaseThreads : wk_lock_queue(t)
    \/ \E t \in PurchaseThreads : wk_publish(t)

SpawnSpec == Init /\ [][SpawnNext]_vars


\* the three mutexes of one Order process together: a thread is in one place at a
\* time, a gateway function (the registry mutex) or the deferred branch of
\* create_order (the worker handle, the queue connection)
InGateway(t) == t \in GwThreads /\ gw.th[t].pc # "idle"
InDeferred(t) == t \in PurchaseThreads /\ wk.th[t].pc # "idle"

\* the steps of thread t once it is inside a gateway function
GwProgress(t) == gw_gate(t) \/ gw_send(t) \/ gw_mark(t) \/ gw_return(t)

\* the steps of thread t once it is inside the deferred branch
WkProgress(t) == wk_check(t) \/ wk_spawn(t) \/ wk_lock_queue(t) \/ wk_publish(t)

LockNext ==
    \/ \E t \in GwThreads : ~InDeferred(t) /\ gw_lock(t)
    \/ \E t \in GwThreads : gw_gate(t)
    \/ \E t \in GwThreads : gw_send(t)
    \/ \E t \in GwThreads : gw_mark(t)
    \/ \E t \in GwThreads : gw_return(t)
    \/ \E t \in PurchaseThreads : ~InGateway(t) /\ wk.started < MaxOrders /\ wk_lock(t)
    \/ \E t \in PurchaseThreads : wk_check(t)
    \/ \E t \in PurchaseThreads : wk_spawn(t)
    \/ \E t \in PurchaseThreads : wk_lock_queue(t)
    \/ \E t \in PurchaseThreads : wk_publish(t)

\* a thread that is inside a function goes on running (weak fairness of its steps);
\* nothing is assumed of new requests
LockSpec ==
    /\ Init
    /\ [][LockNext]_vars
    /\ \A t \in GwThreads : WF_vars(GwProgress(t))
    /\ \A t \in PurchaseThreads : WF_vars(WkProgress(t))

\* the Warehouse service on its own: reserve and release requests from any client,
\* handled on concurrent threads
WhStep(t) ==
    \/ wh_create_order_load_item(t)
    \/ wh_create_order_update_item(t)
    \/ wh_create_order_load_order(t)
    \/ wh_create_order_write_order(t)
    \/ wh_cancel_order_load_order(t)
    \/ wh_cancel_order_update_order(t)
    \/ wh_cancel_order_load_item(t)
    \/ wh_cancel_order_update_item(t)

WhNext == \E t \in WhThreads : WhStep(t)

WhSpec == Init /\ [][WhNext]_vars

\* reserves handled on concurrent threads, and releases that run with no other
\* request under way
WhReleaseNext ==
    \/ \E t \in WhThreads : wh_create_order_load_item(t)
    \/ \E t \in WhThreads : wh_create_order_update_item(t)
    \/ \E t \in WhThreads : wh_create_order_load_order(t)
    \/ \E t \in WhThreads : wh_create_order_write_order(t)
    \/ \E uid \in WhItemUids :
          (\A t \in WhThreads : wh_reqs[t].pc = "idle") /\ wh_delete_order_item(uid)

WhReleaseSpec == Init /\ [][WhReleaseNext]_vars

\* the same with the requests handled one after the other
WhAllIdle == \A t \in WhThreads : wh_reqs[t].pc = "idle"

WhSeqNext ==
    \E t \in WhThreads :
        \/ WhAllIdle /\ wh_create_order_load_item(t)
        \/ wh_create_order_update_item(t)
        \/ wh_create_order_load_order(t)
        \/ wh_create_order_write_order(t)
        \/ WhAllIdle /\ wh_cancel_order_load_order(t)
        \/ wh_cancel_order_update_order(t)
        \/ wh_cancel_order_load_item(t)
        \/ wh_cancel_order_update_item(t)

WhSeqSpec == Init /\ [][WhSeqNext]_vars

\* the Order service asked for purchases, one at a time, and for warranty verdicts
VerdictNext ==
    \/ AllIdle /\ create_order_reserve(FALSE)
    \/ \E s \in BagToSet(sagas) : create_order_enrol(s)
    \/ \E s \in BagToSet(sagas) : create_order_enqueue(s)
    \/ \E s \in BagToSet(sagas) : create_order_compensate(s)
    \/ \E s \in BagToSet(sagas) : create_order_insert(s)
    \/ get_warranty_decision
    \/ cooldown

VerdictSpec == Init /\ [][VerdictNext]_vars

\* the Warranty service on its own: enrol and close requests from any client
WrNext ==
    \/ \E uid \in OrderUids : wr_request_warranty(uid)
    \/ \E uid \in OrderUids : wr_delete_warranty(uid)

WrSpec == Init /\ [][WrNext]_vars

\* Warehouse and Warranty on their own: reserves, releases, enrols, closes and
\* verdict requests from any client, one request at a time
ItemVerdictNext ==
    \/ \E order_uid \in OrderUids, model \in Models : wh_add_order_item(order_uid, model)
    \/ \E item_uid \in VerdictItemUids : wh_delete_order_item(item_uid)
    \/ \E uid \in OrderUids : Cardinality(warranty) < MaxOrders /\ wr_request_warranty(uid)
    \/ \E uid \in OrderUids : wr_delete_warranty(uid)
    \/ wr_request_warranty_verdict
    \/ wh_request_item_warranty

ItemVerdictSpec == Init /\ [][ItemVerdictNext]_vars

\* the Store service on its own: requests handled one at a time, whatever its peers
\* answer, with the calls of its other threads and the clock in between
StoreNext ==
    \/ store_request
    \/ store_get_solid_info_item
    \/ store_get_solid_info_warranty
    \/ \E p \in StorePeers : store_concurrent_call(p)
    \/ store_cooldown

StoreSpec == Init /\ [][StoreNext]_vars

\* the deferred path under fair scheduling: purchases one at a time, the worker, the
\* broker and the clock, with a Warranty service that goes down and comes back.
\* A request handler that has started runs to its end, the worker thread runs when
\* it can, the broker delivers and the clock advances (weak fairness); nothing is
\* assumed of new requests or of the Warranty service
LiveSaga ==
    \/ \E s \in BagToSet(sagas) : create_order_enrol(s)
    \/ \E s \in BagToSet(sagas) : create_order_enqueue(s)
    \/ \E s \in BagToSet(sagas) : create_order_compensate(s)
    \/ \E s \in BagToSet(sagas) : create_order_insert(s)

LiveNext ==
    \/ AllIdle /\ create_order_reserve(FALSE)
    \/ LiveSaga
    \/ WorkerNext
    \/ cooldown
    \/ flip("warranty")

LiveSpec ==
    /\ Init
    /\ [][LiveNext]_vars
    /\ WF_vars(LiveSaga)
    /\ WF_vars(WorkerNext)
    /\ WF_vars(cooldown)

\* ===================================================== properties
\* the Warranty service holds an ON_WARRANTY row for item_uid u
Enrolled(u) == \E w \in load_id(warranty, u) : w.status = "ON_WARRANTY"

\* x occurs in the sequence q
InSeq(x, q) == \E i \in 1..Len(q) : q[i] = x

\* the saga that returned in the last step
Returned(kind) == last.kind = kind

\* C1: whenever create_order returns an order_uid, at that moment the Order table
\* holds a PAID row for it, Warehouse holds a row for it with canceled = false, and
\* the order's item_uid either has an ON_WARRANTY row or has been published to the
\* deferred queue; checked with concurrent sagas, the worker and every outcome of
\* the calls
C1_AcceptedPurchase ==
    (Returned("purchase") /\ last.result = "Ok") =>
        /\ \E r \in load_by_order_id(orders, last.order_uid) :
              r.status = "PAID" /\ r.item_uid = last.item_uid
        /\ \E r \in load_order_uid(order_items, last.order_uid) :
              ~r.canceled /\ r.order_item_uid = last.item_uid
        /\ Enrolled(last.item_uid) \/ published[last.item_uid] > 0

C1_Witness ==
    /\ Returned("purchase") /\ last.result = "Ok"
    /\ published[last.item_uid] > 0
    /\ ~Enrolled(last.item_uid)

\* C2: an Order row is inserted only when Warehouse already holds the row of a
\* successful reserve for its order_uid and item_uid, and the item_uid already has a
\* Warranty row (an enrol succeeded) or has been published to the deferred queue
C2_InsertAfterReserveAndEnrol ==
    [][\A r \in orders' :
          load_by_order_id(orders, r.order_uid) = {} =>
              /\ \E row \in load_order_uid(order_items, r.order_uid) :
                    row.order_item_uid = r.item_uid
              /\ load_id(warranty, r.item_uid) # {} \/ published[r.item_uid] > 0]_vars

C2_Witness ==
    \E r \in orders : published[r.item_uid] > 0 /\ load_id(warranty, r.item_uid) = {}

\* C3: whenever return_order returns Ok, at that moment the order's Warehouse row
\* has canceled = true, the Warranty rows of its item_uid have status
\* REMOVED_FROM_WARRANTY, and the Order row has status CANCELED
C3_ReturnedOrder ==
    (Returned("return") /\ last.result = "Ok") =>
        /\ \A r \in load_order_uid(order_items, last.order_uid) : r.canceled
        /\ load_id(warranty, last.item_uid) # {}
        /\ \A w \in load_id(warranty, last.item_uid) : w.status = "REMOVED_FROM_WARRANTY"
        /\ \A r \in load_by_order_id(orders, last.order_uid) : r.status = "CANCELED"

\* C4: the status Order answers to DELETE /api/v1/orders/{order_uid} is 204 only when
\* return_order returned Ok, 404 when the order does not exist and 422 when the saga
\* ended in a warehouse or warranty access error; so Store answers 204 only for a
\* return that set the order CANCELED
C4_ReturnStatusReflectsSaga ==
    Returned("return") =>
        /\ last.http = 204 => last.result = "Ok"
        /\ last.result = "OrderNotFoundErr" => last.http = 404
        /\ last.result \in {"WarehouseServiceAccessErr", "WarrantyServiceAccessErr"}
              => last.http = 422
        /\ store_return_order_handler(last.http) = 204 =>
              \E r \in load_by_order_id(orders, last.order_uid) : r.status = "CANCELED"

\* the state a purchase that was refused after its reserve leaves behind when the
\* reservation was released: stock as before the request, the order's Warehouse row
\* canceled, no Order row, the warranty access error, 422 from Order and from Store
ReservationReleased ==
    /\ items = before.items
    /\ load_order_uid(order_items, last.order_uid) # {}
    /\ \A r \in load_order_uid(order_items, last.order_uid) : r.canceled
    /\ load_by_order_id(orders, last.order_uid) = {}
    /\ last.result = "WarrantyServiceAccessErr"
    /\ last.http = 422
    /\ store_purchase_handler(last.http) = 422

AcceptedDeferred ==
    /\ published[last.item_uid] = 1
    /\ \E r \in load_by_order_id(orders, last.order_uid) :
          r.status = "PAID" /\ r.item_uid = last.item_uid
    /\ \E r \in load_order_uid(order_items, last.order_uid) :
          /\ ~r.canceled
          /\ r.order_item_uid = last.item_uid
          /\ items[r.item_id] = before.items[r.item_id] - 1
    /\ last.result = "Ok"
    /\ store_purchase_handler(last.http) = 201

Queued(u) == InSeq(u, ready) \/ InSeq(u, unacked)

\* C7: if the Warranty service eventually becomes and stays reachable, every
\* published item_uid is eventually enrolled (ON_WARRANTY row) and its delivery
\* acked, under fair scheduling of the worker, the broker and the clock
C7_PublishedEventuallyEnrolled ==
    (<>[](stable["warranty"])) =>
        \A u \in OrderUids : (published[u] > 0) ~> (Enrolled(u) /\ ~Queued(u))

\* C8: in a return whose release succeeded, whose warranty close failed and whose
\* compensation calls are served, the calls succeed (while the saga is at the
\* fetch, Warehouse answers it 200; at the re-reserve, 200) and afterwards the
\* order's Warehouse row has canceled = false under the same order_item_uid, the
\* item's available_count is what it was before the request, and the Order row is
\* unchanged, so still PAID (sagas one at a time)
C8_ReturnCompensated ==
    /\ \A s \in BagToSet(sagas) :
          /\ s.pc = "info" => wh_get_item(order_items, s.item_uid).status = 200
          /\ s.pc = "rereserve" =>
                wh_create_order(items, order_items, s.order_uid, s.model).status = 200
    /\ (Returned("return") /\ last.path = "compensated") =>
          /\ Cardinality(load_order_uid(order_items, last.order_uid)) = 1
          /\ \A r \in load_order_uid(order_items, last.order_uid) :
                ~r.canceled /\ r.order_item_uid = last.item_uid
          /\ items = before.items
          /\ orders = before.orders
          /\ last.result = "WarrantyServiceAccessErr"

C8_Witness ==
    /\ Returned("return") /\ last.path = "compensated"
    /\ \E r \in load_by_order_id(orders, last.order_uid) : r.status = "PAID"

\* the access error the gateway functions return for peer p
AccessErr(p) ==
    IF p = "warehouse" THEN "WarehouseServiceAccessErr" ELSE "WarrantyServiceAccessErr"

\* every attempt the retry loop can make fails at transport level
AllTransport(c) == \A i \in 1..SERVICES_CALLOUT_NUMBER : c.outs[i] = "transport"

\* some attempt that was sent got an HTTP response
Responded(c) == \E i \in 1..c.attempts : c.outs[i] # "transport"

\* the entry as a call that has just opened the circuit writes it
JustDown == [up |-> FALSE, age |-> 0]

\* C9: a call that is sent stops at the first attempt that gets a response, and it
\* leaves the peer's entry down, written now, exactly when all
\* SERVICES_CALLOUT_NUMBER attempts failed at transport level; no other step turns an
\* entry from up to down; and a call made while the entry is down and younger than
\* SERVICES_UPDATE_DURATION returns the peer's access error without a probe, without
\* an attempt and without changing the entry
C9_CircuitOpensAndHolds ==
    [][\A p \in Peers :
          LET c == call'
              st == services_status[p]
              st2 == services_status'[p]
          IN  /\ (c.peer = p /\ c.attempts > 0) =>
                    /\ \A i \in 1..(c.attempts - 1) : c.outs[i] = "transport"
                    /\ c.attempts < SERVICES_CALLOUT_NUMBER => c.outs[c.attempts] # "transport"
                    /\ AllTransport(c) <=> ~st2.up
                    /\ AllTransport(c) => (st2 = JustDown /\ c.result = AccessErr(p))
              /\ (st.up /\ ~st2.up) =>
                    (c.peer = p /\ c.attempts = SERVICES_CALLOUT_NUMBER /\ AllTransport(c))
              /\ (c.peer = p /\ ~st.up /\ st.age < SERVICES_UPDATE_DURATION) =>
                    /\ c.probe = "none"
                    /\ c.attempts = 0
                    /\ c.result = AccessErr(p)
                    /\ st2 = st]_vars

C9_Witness ==
    /\ call.peer \in Peers
    /\ call.attempts = 0
    /\ call.probe = "none"
    /\ services_status[call.peer] = [up |-> FALSE, age |-> 1]

\* C10 (as amended): a call that receives an HTTP response, whatever its status,
\* leaves the peer's entry up, and leaves the entry as it was unless the call's own
\* health probe succeeded, in which case the entry is up and written now; an entry
\* goes from up to down only in a call all of whose attempts failed at transport level
C10_ResponseKeepsCircuitClosed ==
    [][\A p \in Peers :
          LET c == call'
              st == services_status[p]
              st2 == services_status'[p]
          IN  /\ (c.peer = p /\ Responded(c)) =>
                    /\ st2.up
                    /\ c.status # 0
                    /\ IF c.probe = "ok" THEN st2 = [up |-> TRUE, age |-> 0] ELSE st2 = st
              /\ (st.up /\ ~st2.up) => (c.peer = p /\ ~Responded(c))]_vars

C10_Witness ==
    /\ call.peer \in Peers
    /\ call.status \in {404, 409, 503}
    /\ call.probe = "none"
    /\ services_status[call.peer] = [up |-> TRUE, age |-> 1]

\* C10 as stated: a call that receives an HTTP response never sets up to false and
\* never changes the entry's updated timestamp
C10_ResponseNeverTouchesEntry ==
    [][\A p \in Peers :
          (call'.peer = p /\ Responded(call')) =>
              /\ services_status'[p].up
              /\ services_status'[p].age = services_status[p].age]_vars

\* the sagas' footprint outside the health registry: the four tables, the queue and
\* the worker handle
footprint == <<dbvars, ready, published, warranty_polling_thread>>

\* C11: a purchase that comes in while the item's available_count is 0: the Warehouse
\* reserve answers 409 and changes neither the count nor any row; the saga ends in
\* this very step (no enrol, release, publish or insert follows), with
\* ItemIsNotAvailable when the reserve was answered, and then Order and Store answer
\* 409; and a purchase only ever returns ItemIsNotAvailable from such a step
C11_OutOfStock ==
    [][/\ (next_order_uid' # next_order_uid /\ \A i \in ItemIds : items[i] = 0) =>
             /\ LET r == wh_create_order(items, order_items, next_order_uid', "m")
                IN  r.status = 409 /\ r.items = items /\ r.order_items = order_items
             /\ last'.kind = "purchase" /\ last'.order_uid = next_order_uid'
             /\ last'.path = "reserve_failed"
             /\ last'.result \in {"ItemIsNotAvailable", "ItemNotFound",
                                  "WarehouseServiceAccessErr"}
             /\ \A s \in BagToSet(sagas') : s.order_uid # next_order_uid'
             /\ footprint' = footprint
       /\ (last'.kind = "purchase" /\ last'.result = "ItemIsNotAvailable") =>
             /\ next_order_uid' # next_order_uid
             /\ \A i \in ItemIds : items[i] = 0
             /\ last'.http = 409
             /\ store_purchase_handler(last'.http) = 409]_vars

C11_Witness ==
    /\ Returned("purchase") /\ last.result = "ItemIsNotAvailable"
    /\ items[1] = 0
    /\ load_by_order_id(orders, last.order_uid) = {}

\* the sum of f over the set S
RECURSIVE SumOver(_, _)
SumOver(f, S) ==
    IF S = {} THEN 0
    ELSE LET x == CHOOSE y \in S : TRUE IN f[x] + SumOver(f, S \ {x})

\* a reserve was answered 200 in the last step
Reserved == wh_hist.resp.op = "reserve" /\ wh_hist.resp.status = 200

\* C12: with the Warehouse requests handled one after the other, after N answered
\* reserves of an order_uid (and any releases in between) the item's available_count
\* is the initial stock minus all answered reserves plus all answered releases, there
\* is exactly one order_items row for that order_uid, it still carries the
\* order_item_uid of the first reserve, and each answered reserve leaves it with
\* canceled = false whatever it was before, taking exactly one unit and answering
\* that order_item_uid
C12_RepeatedReserve ==
    WhAllIdle =>
        /\ \A i \in ItemIds :
              items[i] = InitStock - SumOver(wh_hist.reserves, OrderUids) + wh_hist.releases
        /\ \A u \in OrderUids : wh_hist.reserves[u] >= 1 =>
              /\ Cardinality(load_order_uid(order_items, u)) = 1
              /\ \A r \in load_order_uid(order_items, u) :
                    /\ r.order_item_uid = wh_hist.first[u]
                    /\ r.canceled = wh_hist.canceled[u]
        /\ Reserved =>
              LET u == wh_hist.resp.order_uid
                  a == wh_create_order(wh_hist.pre.items, wh_hist.pre.order_items, u, "m")
              IN  /\ wh_hist.resp.item_uid = wh_hist.first[u]
                  /\ \A r \in load_order_uid(order_items, u) : ~r.canceled
                  /\ \A i \in ItemIds : items[i] = wh_hist.pre.items[i] - 1
                  /\ a.status = 200 /\ a.items = items /\ a.order_items = order_items
                  /\ a.item_uid = wh_hist.resp.item_uid

C12_Witness ==
    /\ WhAllIdle /\ Reserved
    /\ wh_hist.reserves[wh_hist.resp.order_uid] >= 2
    /\ \E r \in load_order_uid(wh_hist.pre.order_items, wh_hist.resp.order_uid) : ~r.canceled

\* C13: in every reachable Warehouse state there is at most one order_items row per
\* order_uid, and no step deletes a row, whatever the interleaving of the reserve and
\* release requests
C13_OneRowPerOrder ==
    [][/\ \A u \in OrderUids : Cardinality(load_order_uid(order_items', u)) <= 1
       /\ \A r \in order_items : \E q \in order_items' : q.id = r.id]_vars

\* C14: an item's available_count is never negative, whatever the interleaving of
\* the statements of concurrent reserve and release requests
C14_CountNeverNegative == \A i \in ItemIds : items[i] >= 0

\* two reserves overlapped on the last unit: both were answered 200, the count is 0
C14_Witness ==
    /\ WhAllIdle
    /\ items[1] = 0
    /\ SumOver(wh_hist.reserves, OrderUids) > InitStock + wh_hist.releases

\* C15: an Order row is inserted as PAID; a row's status changes only from PAID to
\* CANCELED, and only in the step in which a return returns Ok; no row disappears; so
\* no step of a return that ends in an error changes a status
C15_PaidThenCanceled ==
    [][/\ \A r \in orders' : load_by_order_id(orders, r.order_uid) = {} => r.status = "PAID"
       /\ \A r \in orders : \E q \in orders' :
             /\ q.order_uid = r.order_uid
             /\ q.status = r.status \/ (r.status = "PAID" /\ q.status = "CANCELED")
       /\ (\E r \in orders : r \notin orders') =>
             (last'.kind = "return" /\ last'.result = "Ok")
       /\ (last'.kind = "return" /\ last'.result # "Ok") => orders' = orders]_vars

\* a return of an order that is already CANCELED has ended in an error
C15_Witness ==
    /\ Returned("return") /\ last.result \in {"WarehouseServiceAccessErr", "WarrantyServiceAccessErr"}
    /\ \E r \in load_by_order_id(orders, last.order_uid) : r.status = "CANCELED"

\* C16: a view of Store (the orders list, the single order) whose call to Order was
\* answered 200 is answered 200 itself and carries one record per order that Order
\* returned, in the same order; a record has its model iff its Warehouse read was
\* answered 200 and its warranty status iff its Warranty read was answered 200
C16_AggregateBestEffort ==
    (store.resp.op \in {"orders", "order"} /\ store.resp.status = 200) =>
        /\ store.resp.result = "Ok"
        /\ store.resp.http = 200
        /\ Len(store.resp.out) = Len(store.resp.orders)
        /\ \A i \in 1..Len(store.resp.out) :
              LET rec == store.resp.out[i] IN
              /\ rec.order_uid = store.resp.orders[i]
              /\ rec.model # "None" <=> rec.wh = 200
              /\ rec.warranty_status # "None" <=> rec.wr = 200

\* a list of two orders: the Warehouse read of the first exhausts its attempts and
\* opens the circuit, that of the second is short-circuited, both Warranty reads
\* are answered; the view is answered 200 with the warranty fields only
C16_Witness ==
    /\ store.resp.op = "orders"
    /\ store.resp.http = 200
    /\ Len(store.resp.out) = 2
    /\ \A i \in 1..2 : /\ store.resp.out[i].wh = 0
                       /\ store.resp.out[i].model = "None"
                       /\ store.resp.out[i].wr = 200
                       /\ store.resp.out[i].warranty_status = "ON_WARRANTY"
    /\ store.resp.called = StorePeers
    /\ store.registry["warehouse"] = [up |-> FALSE, age |-> 0]

\* C17: a request of any of Store's five operations whose user_uid is not in the users
\* table is answered UserNotFound, 404, without a request to any peer (no probe, no
\* attempt) and with the registry left as it was
C17_UnknownUserStopsFirst ==
    [][(store'.resp.op # "none" /\ store'.resp.user_uid \notin users) =>
           /\ store'.resp.result = "UserNotFoundErr"
           /\ store'.resp.http = 404
           /\ store'.resp.called = {}
           /\ store'.registry = store.registry]_vars

\* a purchase of an unknown user arrives when the probe of Order is due: it is
\* answered 404 and the entry is still down
C17_Witness ==
    /\ store.resp.op = "purchase"
    /\ store.resp.user_uid \notin users
    /\ store.resp.http = 404
    /\ store.registry["order"] = [up |-> FALSE, age |-> SERVICES_UPDATE_DURATION]

\* C18: however many times warranty is enrolled for an item_uid, the Warranty table
\* holds at most one row for that item_uid
C18_EnrolIdempotent ==
    \A uid \in OrderUids : Cardinality(load_id(warranty, uid)) <= 1

\* C19: the warranty verdict of Order is answered 404 when the order does not exist,
\* 422 when the call to Warehouse found the circuit open, got no response or got an
\* unexpected status, and 200 when Warehouse gave its decision
C19_VerdictStatus ==
    last.kind = "verdict" =>
        /\ last.path = "no_call" => last.http = 404
        /\ last.path \in {"circuit_open", "no_response", "unexpected_status"} =>
               last.http = 422
        /\ last.result = "Ok" => last.http = 200

\* C20: a purchase that fails with ItemNotFound (the model is not in the Warehouse
\* catalogue) is answered 404 by Order, and 404 by Store on receiving Order's answer
C20_ItemNotFoundIs404 ==
    (last.kind = "purchase" /\ last.result = "ItemNotFound") =>
        /\ last.http = 404
        /\ store_purchase_handler(last.http) = 404

\* the latest warranty row of an item_uid, as the Warranty handler reads it
WarrantyOf(uid) == pop(load_id(warranty, uid))

\* C21: Warranty answers a verdict request 400 for a negative available_count, 404 for
\* an item_uid without a warranty row, and otherwise REFUSED when the status is not
\* ON_WARRANTY, RETURN when it is and the count is positive, FIXING when it is and the
\* count is 0; the count Warehouse sends on is the current count of the item its
\* order_items row refers to
C21_Verdict ==
    [][/\ wr_request_warranty_verdict =>
            LET v == verdict' IN
            IF v.item_num < 0 THEN v.status = 400
            ELSE IF load_id(warranty, v.item_uid) = {} THEN v.status = 404
            ELSE /\ v.status = 200
                 /\ v.verdict =
                        IF WarrantyOf(v.item_uid).status # "ON_WARRANTY" THEN "REFUSED"
                        ELSE IF v.item_num > 0 THEN "RETURN" ELSE "FIXING"
       /\ (wh_request_item_warranty /\ verdict'.sent) =>
            LET v == verdict' IN
            /\ \E r \in order_items : /\ r.order_item_uid = v.item_uid
                                      /\ v.item_num = items[r.item_id]
            /\ IF load_id(warranty, v.item_uid) = {} THEN v.status = 404
               ELSE /\ v.status = 200
                    /\ v.verdict =
                           IF WarrantyOf(v.item_uid).status # "ON_WARRANTY" THEN "REFUSED"
                           ELSE IF v.item_num > 0 THEN "RETURN" ELSE "FIXING"]_vars

\* Warehouse forwarded a positive count for an item whose warranty is closed, and the
\* verdict was REFUSED
C21_Witness ==
    /\ verdict.svc = "warehouse"
    /\ verdict.sent
    /\ verdict.item_num > 0
    /\ verdict.status = 200
    /\ verdict.verdict = "REFUSED"

\* C22: a purchase without a queue whose warranty enrol failed and whose compensating
\* release failed too returns the warranty error, WarrantyServiceAccessErr
C22_CompensationFailureKeepsWarrantyError ==
    (last.kind = "purchase" /\ last.path = "compensation_failed") =>
        last.result = "WarrantyServiceAccessErr"

\* C23: a purchase with a queue whose reserve succeeded, whose warranty enrol failed
\* and whose enqueue failed has its order persisted as PAID
C23_EnqueueFailureStillPaid ==
    (last.kind = "purchase" /\ last.path = "enqueue_failed") =>
        \E r \in load_by_order_id(orders, last.order_uid) : r.status = "PAID"

\* C24: a purchase whose reserve took no unit of stock (Warehouse answered 404 or 409,
\* gave no answer, answered something unexpected, or the circuit was open) ends in
\* that very step: nothing is sent to Warranty, no release is sent, nothing is
\* published, no worker is spawned and no Order row is inserted; the result is
\* ItemNotFound or ItemIsNotAvailable when Warehouse answered so, and
\* WarehouseServiceAccessErr otherwise.  A purchase goes on only with a unit reserved
C24_FailedReserveStops ==
    [][/\ (next_order_uid' # next_order_uid /\ items' = items) =>
             /\ last'.kind = "purchase" /\ last'.order_uid = next_order_uid'
             /\ last'.path = "reserve_failed"
             /\ last'.result \in {"ItemNotFound", "ItemIsNotAvailable",
                                  "WarehouseServiceAccessErr"}
             /\ last'.result = "ItemIsNotAvailable" => \A i \in ItemIds : items[i] = 0
             /\ last'.result # "WarehouseServiceAccessErr" =>
                    services_status'["warehouse"].up
             /\ \A s \in BagToSet(sagas') : s.order_uid # next_order_uid'
             /\ sagas' = sagas
             /\ footprint' = footprint
             /\ services_status'["warranty"] = services_status["warranty"]
       /\ (last'.kind = "purchase" /\ last'.path = "reserve_failed") =>
             next_order_uid' # next_order_uid /\ items' = items]_vars

\* the reserve of a purchase got no answer: the circuit is open, the saga has
\* returned WarehouseServiceAccessErr and no row exists for the order
C24_Witness ==
    /\ last.kind = "purchase" /\ last.path = "reserve_failed"
    /\ last.result = "WarehouseServiceAccessErr"
    /\ ~services_status["warehouse"].up
    /\ load_by_order_id(orders, last.order_uid) = {}
    /\ load_order_uid(order_items, last.order_uid) = {}

\* C25: a return of an order that does not exist ends with OrderNotFound without any
\* call (no registry entry and no table changes); a return whose release failed ends
\* in that very step with WarehouseServiceAccessErr, with nothing sent to Warranty,
\* no compensation and the Order row as it was.  A return goes on to the warranty
\* close only with the unit released
C25_FailedReleaseStops ==
    [][/\ (last'.kind = "return" /\ last'.path = "not_found") =>
             /\ last'.result = "OrderNotFoundErr"
             /\ load_by_order_id(orders, last'.order_uid) = {}
             /\ services_status' = services_status
             /\ footprint' = footprint
             /\ sagas' = sagas
       /\ (last'.kind = "return" /\ last'.path = "release_failed") =>
             /\ last'.result = "WarehouseServiceAccessErr"
             /\ load_by_order_id(orders, last'.order_uid) # {}
             /\ services_status'["warranty"] = services_status["warranty"]
             /\ footprint' = footprint
             /\ sagas' = sagas
       /\ \A s \in BagToSet(sagas') :
             (s.kind = "return" /\ s.pc = "close"
                 /\ CopiesIn(s, sagas') > CopiesIn(s, sagas)) =>
                   /\ items' # items
                   /\ orders' = orders /\ warranty' = warranty]_vars

\* the release of a return got no answer: the circuit is open, the saga has returned
\* WarehouseServiceAccessErr and the order is still PAID
C25_Witness ==
    /\ last.kind = "return" /\ last.path = "release_failed"
    /\ last.result = "WarehouseServiceAccessErr"
    /\ ~services_status["warehouse"].up
    /\ \E r \in load_by_order_id(orders, last.order_uid) : r.status = "PAID"

\* C26: a return whose warranty close failed returns the warranty error when the
\* fetch of the item and the re-reserve both succeeded, and the error of the
\* compensation step that failed otherwise; a failed fetch ends the saga without a
\* re-reserve; no step of the compensation touches the Order row
C26_ReturnCompensation ==
    [][/\ (last'.kind = "return" /\ last'.path = "compensated") =>
             /\ last'.result = "WarrantyServiceAccessErr"
             /\ orders' = orders
       /\ (last'.kind = "return" /\ last'.path = "compensation_failed") =>
             /\ last'.result \in {"WarehouseServiceAccessErr", "ItemNotFound",
                                  "ItemIsNotAvailable"}
             /\ orders' = orders
       /\ \A s \in BagToSet(sagas) :
             (s.pc \in {"info", "rereserve"}
                 /\ CopiesIn(s, sagas') < CopiesIn(s, sagas)) =>
                   /\ orders' = orders /\ warranty' = warranty
                   /\ s.pc = "info" =>
                         /\ items' = items /\ order_items' = order_items
                         /\ last'.kind = "return" =>
                               last'.path = "compensation_failed"
                   /\ s.pc = "rereserve" =>
                         /\ last'.kind = "return"
                         /\ last'.path = "compensated" <=> items' # items]_vars

\* the warranty close failed and so did the compensation: the saga returned the
\* Warehouse error, the unit stays released and the order stays PAID
C26_Witness ==
    /\ last.kind = "return" /\ last.path = "compensation_failed"
    /\ last.result = "WarehouseServiceAccessErr"
    /\ \E r \in load_by_order_id(orders, last.order_uid) : r.status = "PAID"
    /\ \E r \in load_order_uid(order_items, last.order_uid) : r.canceled

\* C27: a call probes the peer exactly when its entry is down and at least
\* SERVICES_UPDATE_DURATION old; after a successful probe the entry is written up, now,
\* and the same call sends the real request (whose failure at every attempt writes it
\* down again); after a failed probe the entry is as it was, nothing is sent and the
\* call returns the peer's access error; a short-circuited call leaves the entry as it
\* was too
C27_ProbeOnlyAfterCooldown ==
    [][\A p \in Peers :
          LET c == call'
              st == services_status[p]
              st2 == services_status'[p]
          IN  c.peer = p =>
                /\ c.probe # "none" <=> (~st.up /\ st.age >= SERVICES_UPDATE_DURATION)
                /\ c.probe = "ok" =>
                      /\ c.attempts >= 1
                      /\ IF AllTransport(c) THEN st2 = JustDown
                         ELSE st2 = [up |-> TRUE, age |-> 0]
                /\ c.probe = "failed" =>
                      /\ st2 = st
                      /\ c.attempts = 0
                      /\ c.result = AccessErr(p)
                /\ (~st.up /\ c.probe = "none") =>
                      /\ st2 = st
                      /\ c.attempts = 0
                      /\ c.result = AccessErr(p)]_vars

\* a probe was due and failed: the entry is still down and as old as before
C27_Witness ==
    /\ call.peer \in Peers
    /\ call.probe = "failed"
    /\ call.attempts = 0
    /\ services_status[call.peer] = [up |-> FALSE, age |-> SERVICES_UPDATE_DURATION]

\* C28: if Warranty eventually becomes and stays reachable, its entry is eventually up
\* for good, given that calls to it keep being made and time passes: a call made once
\* the cooldown has elapsed probes it, writes the entry up and sends the real request
C28_GateRecovers ==
    (<>[]stable["warranty"]) => (<>[]services_status["warranty"].up)

\* a call to a reachable peer whose entry was down probed it, wrote the entry up and
\* was served
C28_Witness ==
    /\ call.peer \in Peers
    /\ stable[call.peer]
    /\ call.probe = "ok"
    /\ call.attempts = 1
    /\ call.status # 0
    /\ services_status[call.peer] = [up |-> TRUE, age |-> 0]

\* C29: the registry mutex is held from the gate check through the probe, the retry
\* attempts and the registry update of one call: a thread that is anywhere in a
\* gateway function holds the mutex, so at most one call of the process is between
\* gate check and registry update, and no thread updates the registry after another
\* thread wrote it since its own gate check
C29_RegistryMutex ==
    /\ \A t \in GwThreads : gw.th[t].pc # "idle" => gw.holder = t
    /\ Cardinality({t \in GwThreads : gw.th[t].pc # "idle"}) <= 1
    /\ \A t \in GwThreads : ~gw.th[t].stale

\* the worker is past its gate check, with the retry loop unanswered, about to mark
\* Warranty down, while both request handlers wait for the mutex
C29_Witness ==
    /\ gw.th["worker"].pc = "mark"
    /\ gw.th["worker"].response = "none"
    /\ gw.holder = "worker"
    /\ services_status["warranty"].up
    /\ ~services_status["warehouse"].up
    /\ \A t \in {"handler1", "handler2"} : gw.th[t].pc = "idle"

\* C30: however many purchases take the deferred path at once, at most one worker
\* thread is ever spawned: a thread is spawned only by the holder of the
\* worker-handle mutex that found the handle empty, and the handle is stored in the
\* same step
C30_SingleWorker ==
    [][/\ wk'.spawned <= 1
       /\ wk'.spawned # wk.spawned =>
            /\ warranty_polling_thread = "none"
            /\ warranty_polling_thread' = "running"
            /\ \E t \in PurchaseThreads : wk.holder = t /\ wk.th[t].pc = "spawn"
       /\ warranty_polling_thread # "none" => wk'.spawned = wk.spawned]_vars

\* the worker runs, spawned once, and a later purchase that found the handle stored
\* is publishing while a third one waits with its message for the handle
C30_Witness ==
    /\ wk.spawned = 1
    /\ warranty_polling_thread = "running"
    /\ Len(ready) >= 1
    /\ \E t \in PurchaseThreads : wk.th[t].pc = "publish" /\ wk.holder = t
    /\ wk.started >= 3

\* the number of times x occurs in the sequence q
Occurrences(q, x) == Cardinality({i \in 1..Len(q) : q[i] = x})

\* the deliveries of item_uid u that the broker still holds, ready or unacked
Held(u) == Occurrences(ready, u) + Occurrences(unacked, u)

\* C31: the worker acks a delivery only in the step in which the enrol call for that
\* delivery's item_uid was served with 204 and added the Warranty row; a failed or
\* short-circuited enrol acks nothing; so an item_uid that was published and is no
\* longer held by the broker has a Warranty row
C31_AckAfterEnrol ==
    [][/\ \A u \in OrderUids :
            Occurrences(unacked', u) + Occurrences(ready', u) < Held(u) =>
                /\ wpc = "recv" /\ inbox # <<>> /\ Head(inbox) = u
                /\ services_status'["warranty"].up
                /\ load_id(warranty', u) # load_id(warranty, u)
                /\ Enrolled(u)'
       /\ \A u \in OrderUids :
            (published'[u] > 0 /\ Occurrences(unacked', u) + Occurrences(ready', u)
                                    < published'[u])
                => load_id(warranty', u) # {}]_vars

\* a published item_uid was delivered, enrolled by the worker and acked: the broker
\* holds nothing, the row is there, and the order stands PAID
C31_Witness ==
    /\ warranty_polling_thread = "running"
    /\ \E u \in OrderUids :
        /\ published[u] = 1
        /\ Held(u) = 0
        /\ Enrolled(u)
        /\ \E o \in orders : o.item_uid = u /\ o.status = "PAID"

C33_ReleaseOneRow ==
    [][\A uid \in WhItemUids :
          wh_delete_order_item(uid) =>
              IF load_order_item_uid(order_items, uid) = {} THEN
                  /\ items' = items
                  /\ order_items' = order_items
              ELSE \E r \in load_order_item_uid(order_items, uid) :
                  /\ order_items' = (order_items \ {r}) \cup {[r EXCEPT !.canceled = TRUE]}
                  /\ items' = [items EXCEPT ![r.item_id] = @ + 1]]_vars

\* C34: a reserve decides on the count it read, not on the count at the time of its
\* write: a handler that read available_count = 1 writes 0 and goes on to its
\* order_items row whatever the other handlers wrote in between, so two concurrent
\* reserves that both read 1 both succeed
C34_ReserveWritesFromItsRead ==
    [][\A t \in WhThreads :
          (/\ wh_reqs[t].pc = "update_item" /\ wh_reqs[t].op = "reserve"
           /\ wh_reqs[t].count = 1
           /\ wh_reqs'[t] # wh_reqs[t])
          => /\ \E i \in load_item(wh_reqs[t].model) : items'[i] = 0
             /\ wh_reqs'[t].pc = "load_order"]_vars

\* oversold: the single unit of stock was reserved twice with nothing released; two
\* orders hold live rows on the item and both requests were answered 200
C34_Witness ==
    /\ InitStock = 1
    /\ WhAllIdle
    /\ wh_hist.releases = 0
    /\ \A u \in OrderUids : wh_hist.reserves[u] = 1
    /\ \A i \in ItemIds : items[i] = 0
    /\ \E r, q \in order_items :
          /\ r.order_uid # q.order_uid /\ r.item_id = q.item_id
          /\ ~r.canceled /\ ~q.canceled

\* C35: in the two views of Store the call to Order is not best-effort: when it fails
\* (circuit open, no response, a status other than 200) the request fails with
\* OrderServiceAccessErr, 422, with no record built and no request put to Warehouse or
\* Warranty; in the single-order view a 404 of Order is returned as OrderNotFoundErr,
\* again with no request to Warehouse or Warranty
C35_OrderCallNotBestEffort ==
    (store.resp.op \in {"orders", "order"} /\ store.resp.user_uid \in users
        /\ store.resp.status # 200) =>
        /\ store.resp.out = <<>>
        /\ store.resp.called \subseteq {"order"}
        /\ IF store.resp.op = "order" /\ store.resp.status = 404
           THEN store.resp.result = "OrderNotFoundErr"
           ELSE store.resp.result = "OrderServiceAccessErr" /\ store.resp.http = 422

\* the orders list is asked for while the circuit to Order is open and inside its
\* cooldown: 422 with nothing put on the wire
C35_Witness ==
    /\ store.resp.op = "orders"
    /\ store.resp.user_uid \in users
    /\ store.resp.result = "OrderServiceAccessErr"
    /\ store.resp.http = 422
    /\ store.resp.called = {}
    /\ ~store.registry["order"].up
    /\ store.registry["order"].age < SERVICES_UPDATE_DURATION

\* the order_items rows that hold a unit of item i
LiveRows(i) == {r \in order_items : r.item_id = i /\ ~r.canceled}

\* C36: with all services reachable and the sagas run one at a time, stock is
\* conserved: for each item, available_count plus the number of rows with
\* canceled = false that reference it is the initial stock; so a second return of
\* an order that is already CANCELED does not increment the count again
C36_StockConserved ==
    \A i \in ItemIds : items[i] + Cardinality(LiveRows(i)) = InitStock

\* C37: whenever no saga is in flight, every Order row with status PAID has a
\* Warehouse row for its order_uid with canceled = false, after failed returns too
C37_PaidOrderHoldsStock ==
    AllIdle =>
        \A o \in orders :
            o.status = "PAID" =>
                \E r \in load_order_uid(order_items, o.order_uid) : ~r.canceled

\* C38: an item whose order is CANCELED has no Warranty row with status ON_WARRANTY,
\* in the state in which the order is set CANCELED and in every later state: no later
\* step, a late or repeated delivery to the worker included, enrols a returned item
C38_ReturnedItemStaysOffWarranty ==
    \A o \in orders : o.status = "CANCELED" => ~Enrolled(o.item_uid)

\* some thread is inside a gateway function or the deferred branch
Busy ==
    \/ \E t \in GwThreads : gw.th[t].pc # "idle"
    \/ \E t \in PurchaseThreads : wk.th[t].pc # "idle"

\* C39: no interleaving of the handlers and the worker deadlocks.  The mutexes are
\* taken in one order: the holder of the registry holds and takes no other mutex,
\* the holder of the queue connection takes no further mutex, the worker handle is
\* taken by a thread that holds nothing; whenever a thread is inside, some thread
\* inside can take a step; and every mutex is free again and again
C39_NoDeadlock ==
    /\ [](\A t \in GwThreads : gw.holder = t => ~InDeferred(t))
    /\ [](\A t \in PurchaseThreads : wk.qholder = t => wk.th[t].pc = "publish")
    /\ [](\A t \in PurchaseThreads :
            wk.th[t].pc = "check" => (wk.holder = t /\ wk.qholder # t /\ gw.holder # t))
    /\ [](Busy => ENABLED ((\E t \in GwThreads : GwProgress(t))
                           \/ (\E t \in PurchaseThreads : WkProgress(t))))
    /\ []<>(gw.holder = "none")
    /\ []<>(wk.holder = "none")
    /\ []<>(wk.qholder = "none")

\* a purchase that found the worker running holds the worker handle and waits for
\* the queue connection, which the purchase that spawned the worker holds while it
\* publishes, and the worker is inside a gateway call holding the registry
C39_Witness ==
    /\ gw.holder = "worker" /\ gw.th["worker"].pc = "send"
    /\ warranty_polling_thread = "running"
    /\ \E t, u \in PurchaseThreads :
          /\ t # u
          /\ wk.holder = t /\ wk.th[t].pc = "queue"
          /\ wk.qholder = u /\ wk.th[u].pc = "publish"

\* C40: the health probe reports a peer healthy iff a response arrived, whatever its
\* status (the 401 of the guarded health endpoint and a 5xx included), unhealthy iff
\* none arrived, and it leaves the registry as it is
C40_ProbeHealthyOnAnyResponse ==
    [][\A p \in Peers : direct_probe(p) =>
          /\ call'.probe = "ok" <=> call'.status \in {200, 401, 500, 503}
          /\ call'.probe = "failed" <=> call'.status = 0
          /\ services_status' = services_status]_vars

\* the probe is answered 401 and reports the peer healthy while the registry entry of
\* the peer is down and inside its cooldown
C40_Witness ==
    /\ call.req = "health"
    /\ call.status = 401
    /\ call.probe = "ok"
    /\ ~services_status[call.peer].up
    /\ services_status[call.peer].age < SERVICES_UPDATE_DURATION
====
